---- MODULE Spec2Model ----
(***************************************************************************)
(* A model of the myEQ (ZooEQ) plug-in: the block queue that carries data  *)
(* between the audio callback and the editor's polling timer, the audio    *)
(* callback (processBlock), the host's set-up and state calls              *)
(* (prepareToPlay, setStateInformation) and the editor's timer             *)
(* (ResponseCurveComponent::timerCallback and PathProducer::process).      *)
(*                                                                         *)
(* PluginProcessor.h (Fifo, SingleChannelSampleFifo, ChainSettings,        *)
(* updateCutFilter, makeLowCutFilter, makeHighCutFilter) is not among the  *)
(* sources; what it declares is modelled from spec.md and from the calls   *)
(* the sources make into it.                                               *)
(***************************************************************************)
EXTENDS Integers, Sequences, FiniteSets, TLC

(***************************************************************************)
(* Bounds of the model.                                                    *)
(***************************************************************************)
\* number of item slots of the queue of SpecFifo (Fifo<T>::Capacity in the
\* program)
Capacity == 2
\* calls of push, and of pull, beyond Capacity that one run of SpecFifo makes
ExtraCalls == 2

MaxCalls == Capacity + ExtraCalls

\* number of item slots of each queue of the plug-in (SpecAnalyser, SpecFilters)
NumSlots == 1
\* calls of processBlock in one run
MaxBlocks == 2
\* number of item slots of each queue of the plug-in in SpecPipeline
PipelineSlots == 2
\* the length of the sliding window (the FFT size), in samples
WindowSize == 4
\* the number of bins of a frame (fftSize / 2)
NumBins == 6

(***************************************************************************)
(* Fifo<T> (spec.md 4.1): a fixed number of slots and a read and a write   *)
(* cursor.  The cursors run over twice the number of slots, so that a full *)
(* queue (the cursors one capacity apart) differs from an empty one (the   *)
(* cursors equal); a cursor's slot is its value modulo the capacity.       *)
(***************************************************************************)
\* the content of a slot no item was copied into
NoItem == 0

\* prepare: every slot cleared, both cursors at the start
prepare(capacity) ==
    [buffers |-> [i \in 0 .. capacity - 1 |-> NoItem], r |-> 0, w |-> 0]

getCapacity(f) == Cardinality(DOMAIN f.buffers)

CursorRange(f) == 2 * getCapacity(f)

getNumAvailableForReading(f) == (f.w - f.r) % CursorRange(f)

\* mutant: one slot is never used
getFreeSpace_oneLess(f) == getCapacity(f) - 1 - getNumAvailableForReading(f)

getFreeSpace(f) == getCapacity(f) - getNumAvailableForReading(f)

\* push, first half: the item is copied into the next write slot
push_copy(f, item) == [f EXCEPT !.buffers[f.w % getCapacity(f)] = item]

\* push, second half: the write cursor moves past the slot
push_finish(f) == [f EXCEPT !.w = (f.w + 1) % CursorRange(f)]

\* mutant: the slot written last is read instead of the oldest unread one
pull_copy_newest(f) == f.buffers[(f.w + getCapacity(f) - 1) % getCapacity(f)]

\* pull, first half: the oldest unread slot
pull_copy(f) == f.buffers[f.r % getCapacity(f)]

\* pull, second half: the read cursor moves past the slot
pull_finish(f) == [f EXCEPT !.r = (f.r + 1) % CursorRange(f)]

\* push(item) run without interruption: the queue after it
push(f, item) == IF getFreeSpace(f) > 0 THEN push_finish(push_copy(f, item)) ELSE f

\* pull(out) run without interruption: the queue after it (the item pulled
\* is pull_copy of the queue before it)
pull(f) == IF getNumAvailableForReading(f) > 0 THEN pull_finish(f) ELSE f

(***************************************************************************)
(* The filter chains.  A chain holds a bypass flag per band, four sections *)
(* (bypass flag and coefficients) in each cut band and the peak band's     *)
(* coefficients.  Coefficients are kept as the design they came from: the  *)
(* filter kind and the parameter values it was computed for.               *)
(***************************************************************************)
Sections == 0 .. 3

\* createParameterLayout: the default of every parameter
DefaultSettings ==
    [lowCutFreq |-> 20, highCutFreq |-> 20000, peakFreq |-> 750,
     peakGainInDecibels |-> 0, peakQuality |-> 1,
     lowCutSlope |-> 0, highCutSlope |-> 0,
     lowCutBypassed |-> FALSE, peakBypassed |-> FALSE, highCutBypassed |-> FALSE]

\* the parameter changes a run makes: <<field of ChainSettings, new value>>
ParameterInputs ==
    {<<"lowCutSlope", 2>>, <<"lowCutSlope", 0>>,
     <<"peakBypassed", TRUE>>, <<"peakBypassed", FALSE>>}

\* the state trees setStateInformation is given: parameter values that
\* getStateInformation can have written
StateTrees ==
    {[[DefaultSettings EXCEPT !.lowCutSlope = sl] EXCEPT !.peakBypassed = pb] :
        sl \in {0, 2}, pb \in BOOLEAN}

\* getChainSettings(apvts): a snapshot of the parameter values
getChainSettings(a) == a

Unity == <<"unity">>

\* a default-constructed MonoChain: nothing bypassed, pass-through filters
NewChain ==
    [lowCutBypassed |-> FALSE, peakBypassed |-> FALSE, highCutBypassed |-> FALSE,
     lowCut |-> [i \in Sections |-> [bypassed |-> FALSE, coefficients |-> Unity]],
     peak |-> Unity,
     highCut |-> [i \in Sections |-> [bypassed |-> FALSE, coefficients |-> Unity]]]

makePeakFilter(s) == <<"peak", s.peakFreq, s.peakQuality, s.peakGainInDecibels>>

\* one coefficient set per section of a high-pass of order 2*(slope+1)
makeLowCutFilter(s) ==
    [i \in 0 .. s.lowCutSlope |-> <<"lowCut", s.lowCutFreq, 2 * (s.lowCutSlope + 1), i>>]

makeHighCutFilter(s) ==
    [i \in 0 .. s.highCutSlope |-> <<"highCut", s.highCutFreq, 2 * (s.highCutSlope + 1), i>>]

\* mutant: the sections beyond the slope are left as they were
updateCutFilter_noBypass(cut, coefficients, slope) ==
    [i \in Sections |->
        IF i <= slope
          THEN [bypassed |-> FALSE, coefficients |-> coefficients[i]]
          ELSE cut[i]]

\* updateCutFilter(cut, coefficients, slope): sections 0..slope get their
\* coefficients and run, the sections beyond are bypassed
updateCutFilter(cut, coefficients, slope) ==
    [i \in Sections |->
        IF i <= slope
          THEN [bypassed |-> FALSE, coefficients |-> coefficients[i]]
          ELSE [bypassed |-> TRUE, coefficients |-> cut[i].coefficients]]

\* what updateLowCutFilters does to one chain
updateLowCutFilters(chain, s) ==
    [chain EXCEPT !.lowCutBypassed = s.lowCutBypassed,
                  !.lowCut = updateCutFilter(chain.lowCut, makeLowCutFilter(s),
                                             s.lowCutSlope)]

\* what updatePeakFilter does to one chain
updatePeakFilter(chain, s) ==
    [chain EXCEPT !.peakBypassed = s.peakBypassed, !.peak = makePeakFilter(s)]

\* what updateHighCutFilter does to one chain
updateHighCutFilter(chain, s) ==
    [chain EXCEPT !.highCutBypassed = s.highCutBypassed,
                  !.highCut = updateCutFilter(chain.highCut, makeHighCutFilter(s),
                                              s.highCutSlope)]

\* ResponseCurveComponent::updateChain on monoChain
updateChain(chain, s) ==
    LET c1 == [chain EXCEPT !.lowCutBypassed = s.lowCutBypassed,
                            !.peakBypassed = s.peakBypassed,
                            !.highCutBypassed = s.highCutBypassed]
        c2 == [c1 EXCEPT !.peak = makePeakFilter(s)]
        c3 == [c2 EXCEPT !.lowCut = updateCutFilter(c2.lowCut, makeLowCutFilter(s),
                                                    s.lowCutSlope)]
    IN  [c3 EXCEPT !.highCut = updateCutFilter(c3.highCut, makeHighCutFilter(s),
                                               s.highCutSlope)]

\* the delay registers of the three bands of one chain after reset(): they
\* hold no block
ClearedRegisters == [lowCut |-> NoItem, peak |-> NoItem, highCut |-> NoItem]

\* MonoChain::process(context): every band that is not bypassed runs its
\* filters over the block, and the delay registers of the band then hold
\* the end of that block; a bypassed band is skipped and keeps its registers
MonoChain_process(chain, registers, block) ==
    [lowCut |-> IF ~chain.lowCutBypassed THEN block ELSE registers.lowCut,
     peak |-> IF ~chain.peakBypassed THEN block ELSE registers.peak,
     highCut |-> IF ~chain.highCutBypassed THEN block ELSE registers.highCut]

\* the chain runs the bands and sections settings s asks for, with the
\* coefficients computed from s
Configured(chain, s) ==
    /\ chain.lowCutBypassed = s.lowCutBypassed
    /\ chain.peakBypassed = s.peakBypassed
    /\ chain.highCutBypassed = s.highCutBypassed
    /\ chain.peak = makePeakFilter(s)
    /\ \A i \in Sections :
         /\ chain.lowCut[i].bypassed = (i > s.lowCutSlope)
         /\ i <= s.lowCutSlope => chain.lowCut[i].coefficients = makeLowCutFilter(s)[i]
         /\ chain.highCut[i].bypassed = (i > s.highCutSlope)
         /\ i <= s.highCutSlope => chain.highCut[i].coefficients = makeHighCutFilter(s)[i]

(***************************************************************************)
(* The queues of the plug-in and the contexts that use them.               *)
(***************************************************************************)
PathProducers == {"leftPathProducer", "rightPathProducer"}

\* the processor's leftChannelFifo and rightChannelFifo, by channel
Channels == {"left", "right"}

\* ResponseCurveComponent's constructor: the sample queue each PathProducer
\* is given (its member leftChannelFifo)
\* mutant: both producers are given the left channel's queue
leftChannelFifo_bothLeft(pp) == "left"

leftChannelFifo(pp) ==
    IF pp = "leftPathProducer" THEN "left" ELSE "right"

QueueIds ==
    {<<"sampleFifo", f>> : f \in Channels}
        \cup {<<"fftDataFifo", pp>> : pp \in PathProducers}
        \cup {<<"pathFifo", pp>> : pp \in PathProducers}

(***************************************************************************)
(* State.                                                                  *)
(***************************************************************************)
VARIABLES
    \* ---- one queue with its producer and its consumer (SpecFifo)
    fifo,        \* the queue
    pcP,         \* producer: "idle", "copy" (slot reserved), "finish" (item copied)
    pItem,       \* the item of the push in progress
    pushCalls,   \* calls of push so far; the k-th call offers item k
    pushRets,    \* the results of the completed pushes, in call order
    accepted,    \* the items of the pushes that returned true, in order
    pcC,         \* consumer: "idle", "copy", "finish"
    out,         \* the consumer's output argument
    pullCalls,   \* calls of pull so far
    pullRet,     \* the result of the last completed pull
    delivered,   \* the items of the pulls that returned true, in order
    quietFill,   \* no pull has begun before Capacity+1 pushes had returned
    emptyPullAt, \* Len(accepted) when pull last found the queue empty, or -1
    \* ---- the plug-in (SpecAnalyser, SpecFilters)
    apvts,                  \* the parameter values getChainSettings reads
    parametersChanged,      \* ResponseCurveComponent::parametersChanged (atomic)
    shouldShowFFTAnalysis,  \* ResponseCurveComponent::shouldShowFFTAnalysis
    leftChain,              \* ZooEQAudioProcessor::leftChain
    rightChain,             \* ZooEQAudioProcessor::rightChain
    monoChain,              \* ResponseCurveComponent::monoChain
    sampleFifo,             \* leftChannelFifo, rightChannelFifo of the processor
    preparing,              \* the sample queues a prepare is running on
    fftDataFifo,            \* per PathProducer: leftChannelFFTDataGenerator.fftDataFifo
    pathFifo,               \* per PathProducer: pathProducer.pathFifo
    monoBuffer,             \* per PathProducer: the newest block in the window
    leftChannelFFTPath,     \* per PathProducer: the path getPath() returns
    pcA,                    \* the audio callback's position in processBlock
    chainSettigns,          \* per context: updateFilters' local, the settings read
    buffer,                 \* the AudioBuffer of the block being processed
    blockNo,                \* processBlock calls so far
    updates,                \* updateFilters calls of the current processBlock
    delayRegisters,         \* per channel and band: the block its filters' state holds
    prepared,               \* a prepareToPlay has completed
    pcH,                    \* the host thread's position
    hostCall,               \* the call the host thread is in
    pcG,                    \* the message thread's position in timerCallback
    producer,               \* the PathProducer whose process() is running
    tempIncomingBuffer,     \* PathProducer::process: the block just pulled
    writers,                \* per queue: the contexts that pushed into it
    readers,                \* per queue: the contexts that pulled from it
    lastGenerated,          \* per PathProducer: the path generatePath made last
    repaintPending,         \* repaint() was called and paint() has not run yet
    mags,                   \* paint(): the curve computed last, per frequency
    settingsChanged,        \* a parameter or monoChain was written since mags was computed
    \* ---- the sliding window of one PathProducer, sample by sample (SpecWindow)
    monoBufferSamples,      \* the samples of monoBuffer, oldest first
    tempIncomingSamples,    \* the samples of the block last pulled, <<>> before the first
    monoBufferBefore,       \* monoBufferSamples before that block was taken in
    \* ---- one call of AnalyserPathGenerator::generatePath (SpecPath)
    renderData,             \* the frame: the level in dB of every bin
    binWidth,               \* sampleRate / fftSize, in Hz
    width,                  \* fftBounds.getWidth(), in pixels
    path,                   \* the points of the path generatePath made last
    \* ---- the length of the blocks of one sample queue (SpecBlockSize)
    bufferSize,             \* the samplesPerBlock of the last prepare, 0 before the first
    shiftCopy,              \* the arguments of the last shift copy: offsets and count
    \* ---- the channels of the buffer processBlock is given (SpecChannels)
    busesLayout,            \* the channel counts of the main input and output bus
    channelsAccessed,       \* the channel indices the current processBlock has used
    \* ---- the editor and its Analyser Enable button (SpecEditor)
    editorOpen,             \* the editor exists
    analyserEnable,         \* the value of the "Analyser Enable" parameter
    analyserEnableButton,   \* the toggle state of analyserEnableButton
    attachmentPending,      \* the button's attachment has an update to deliver
    \* ---- what has run since the last parameter change (SpecTracking)
    sinceChange             \* per context: "none", "running" or "done"

fifoVars == <<fifo, pcP, pItem, pushCalls, pushRets, accepted, pcC, out,
              pullCalls, pullRet, delivered, quietFill, emptyPullAt>>

pluginVars == <<apvts, parametersChanged, shouldShowFFTAnalysis, leftChain,
                rightChain, monoChain, sampleFifo, preparing, fftDataFifo,
                pathFifo, monoBuffer, leftChannelFFTPath, pcA, chainSettigns,
                buffer, blockNo, updates, delayRegisters, prepared, pcH, hostCall,
                pcG, producer,
                tempIncomingBuffer, writers, readers, lastGenerated,
                repaintPending, mags, settingsChanged>>

windowVars == <<monoBufferSamples, tempIncomingSamples, monoBufferBefore>>

pathVars == <<renderData, binWidth, width, path>>

\* the variables of the specifications of single functions
blockVars == <<bufferSize, shiftCopy>>

busVars == <<busesLayout, channelsAccessed>>

editorVars == <<editorOpen, analyserEnable, analyserEnableButton, attachmentPending>>

trackVars == <<sinceChange>>

unitVars == <<windowVars, pathVars, blockVars, busVars, editorVars, trackVars>>

vars == <<fifoVars, pluginVars, unitVars>>

InitFifo ==
    /\ fifo = prepare(Capacity)
    /\ pcP = "idle"
    /\ pItem = NoItem
    /\ pushCalls = 0
    /\ pushRets = <<>>
    /\ accepted = <<>>
    /\ pcC = "idle"
    /\ out = NoItem
    /\ pullCalls = 0
    /\ pullRet = FALSE
    /\ delivered = <<>>
    /\ quietFill = TRUE
    /\ emptyPullAt = -1

\* The processor and its editor have been constructed: the parameters hold
\* their defaults, the audio chains are untouched, ResponseCurveComponent's
\* constructor has run updateChain and started the timer, each PathProducer's
\* constructor has run changeOrder.  prepareToPlay has not been called yet.
\* With analyserOn false the Analyser Enable button has been clicked off
\* since: the analysis is off and the click has set parametersChanged.
InitPluginWith(capacity, analyserOn) ==
    /\ apvts = DefaultSettings
    /\ parametersChanged = ~analyserOn
    /\ shouldShowFFTAnalysis = analyserOn
    /\ leftChain = NewChain
    /\ rightChain = NewChain
    /\ monoChain = updateChain(NewChain, getChainSettings(DefaultSettings))
    /\ sampleFifo = [f \in Channels |-> prepare(capacity)]
    /\ preparing = {}
    /\ fftDataFifo = [pp \in PathProducers |-> prepare(capacity)]
    /\ pathFifo = [pp \in PathProducers |-> prepare(capacity)]
    /\ monoBuffer = [pp \in PathProducers |-> NoItem]
    /\ leftChannelFFTPath = [pp \in PathProducers |-> NoItem]
    /\ pcA = "idle"
    /\ chainSettigns = [t \in {"audio", "host"} |-> DefaultSettings]
    /\ buffer = [f \in Channels |-> [block |-> NoItem, filtered |-> FALSE]]
    /\ blockNo = 0
    /\ updates = 0
    /\ delayRegisters = [c \in Channels |-> ClearedRegisters]
    /\ prepared = FALSE
    /\ pcH = "idle"
    /\ hostCall = "none"
    /\ pcG = "idle"
    /\ producer = "leftPathProducer"
    /\ tempIncomingBuffer = NoItem
    /\ writers = [q \in QueueIds |-> {}]
    /\ readers = [q \in QueueIds |-> {}]
    /\ lastGenerated = [pp \in PathProducers |-> NoItem]
    /\ repaintPending = FALSE
    /\ mags = <<>>
    /\ settingsChanged = TRUE

InitPluginSized(capacity) == InitPluginWith(capacity, TRUE)

InitPlugin == InitPluginSized(NumSlots)

\* the sample values of the window model
Samples == {0, 1}

\* monoBuffer.setSize(1, getFFTSize()): WindowSize samples whose values
\* nothing has set yet
InitWindow ==
    /\ monoBufferSamples \in [1 .. WindowSize -> Samples]
    /\ tempIncomingSamples = <<>>
    /\ monoBufferBefore = monoBufferSamples

\* one of these windows, for the specifications that do not look into it
InitWindowZero ==
    /\ monoBufferSamples = [i \in 1 .. WindowSize |-> 0]
    /\ tempIncomingSamples = <<>>
    /\ monoBufferBefore = monoBufferSamples

\* the encodings of the float values that are not finite
PlusInfinity == 1000000
MinusInfinity == -1000000
NaN == 2000000

isfinite(v) == v \notin {PlusInfinity, MinusInfinity, NaN}

\* the floor of the levels of a frame: the -48.f process passes on
negativeInfinity == -48

\* the levels a bin of a frame can have: gainToDecibels(magnitude / numBins,
\* negativeInfinity) is at least negativeInfinity, turns a NaN magnitude into
\* negativeInfinity and leaves an infinite magnitude infinite
Levels == {negativeInfinity, -24, 0, PlusInfinity}

\* sampleRate / fftSize for the sample rates of a run, in Hz
BinWidths == {8, 24, 2400}

\* the widths of the analysis area, in pixels
Widths == {3, 6}

\* no frame has been drawn yet
InitPath ==
    /\ renderData = [bin \in 0 .. NumBins - 1 |-> negativeInfinity]
    /\ binWidth \in BinWidths
    /\ width \in Widths
    /\ path = <<>>

\* one of these, for the specifications that do not draw paths
InitPathNone ==
    /\ renderData = [bin \in 0 .. NumBins - 1 |-> negativeInfinity]
    /\ binWidth = 24
    /\ width = 3
    /\ path = <<>>

\* the window and the path generator for the specifications that do not
\* look into them
\* no shift copy has been made
NoShift == [dest |-> 0, src |-> 0, num |-> 0]

\* prepareToPlay has not run yet: the sample queue has no blocks
InitBlockSize ==
    /\ bufferSize = 0
    /\ shiftCopy = NoShift

\* the constructor's BusesProperties: stereo in, stereo out
InitBuses ==
    /\ busesLayout = [in |-> 2, out |-> 2]
    /\ channelsAccessed = {}

\* the editor has been constructed with the parameter at its default, true:
\* the attachment has switched the button on
InitEditor ==
    /\ editorOpen = TRUE
    /\ analyserEnable = TRUE
    /\ analyserEnableButton = TRUE
    /\ attachmentPending = FALSE

\* no parameter has changed and neither processBlock nor timerCallback has
\* run yet
InitTracking == sinceChange = [audio |-> "none", gui |-> "none"]

InitUnitsNone ==
    /\ InitWindowZero /\ InitPathNone /\ InitBlockSize /\ InitBuses /\ InitEditor
    /\ InitTracking

Init == InitFifo /\ InitPlugin /\ InitUnitsNone

\* the same plug-in with queues of PipelineSlots slots
InitPipeline == InitFifo /\ InitPluginSized(PipelineSlots) /\ InitUnitsNone

(***************************************************************************)
(* The producer: FFTDataGenerator::produceFFTDataForRendering ends in      *)
(* fftDataFifo.push(fftData), AnalyserPathGenerator::generatePath in       *)
(* pathFifo.push(p).  A push is three steps: the test for room, the copy   *)
(* into the slot, the move of the write cursor.                            *)
(***************************************************************************)
\* mutant: the test for room lets a push into a full queue through
Producer_begin_overwrite ==
    /\ pcP = "idle"
    /\ pushCalls < MaxCalls
    /\ pushCalls' = pushCalls + 1
    /\ IF getFreeSpace(fifo) >= 0
         THEN /\ pItem' = pushCalls + 1
              /\ pcP' = "copy"
              /\ pushRets' = pushRets
         ELSE /\ pItem' = pItem
              /\ pcP' = "idle"
              /\ pushRets' = Append(pushRets, FALSE)
    /\ UNCHANGED <<fifo, accepted, pcC, out, pullCalls, pullRet, delivered,
                   quietFill, emptyPullAt>>

Producer_begin ==
    /\ pcP = "idle"
    /\ pushCalls < MaxCalls
    /\ pushCalls' = pushCalls + 1
    /\ IF getFreeSpace(fifo) > 0
         THEN /\ pItem' = pushCalls + 1
              /\ pcP' = "copy"
              /\ pushRets' = pushRets
         ELSE /\ pItem' = pItem
              /\ pcP' = "idle"
              /\ pushRets' = Append(pushRets, FALSE)
    /\ UNCHANGED <<fifo, accepted, pcC, out, pullCalls, pullRet, delivered,
                   quietFill, emptyPullAt>>

Producer_copy ==
    /\ pcP = "copy"
    /\ fifo' = push_copy(fifo, pItem)
    /\ pcP' = "finish"
    /\ UNCHANGED <<pItem, pushCalls, pushRets, accepted, pcC, out, pullCalls,
                   pullRet, delivered, quietFill, emptyPullAt>>

Producer_finish ==
    /\ pcP = "finish"
    /\ fifo' = push_finish(fifo)
    /\ pushRets' = Append(pushRets, TRUE)
    /\ accepted' = Append(accepted, pItem)
    /\ pcP' = "idle"
    /\ UNCHANGED <<pItem, pushCalls, pcC, out, pullCalls, pullRet, delivered,
                   quietFill, emptyPullAt>>

(***************************************************************************)
(* The consumer: FFTDataGenerator::getFFTData and                          *)
(* AnalyserPathGenerator::getPath return fifo.pull(result).                *)
(***************************************************************************)
\* mutant: the slot is copied into the output argument before the test
Consumer_begin_copyFirst ==
    /\ pcC = "idle"
    /\ pullCalls < MaxCalls
    /\ pullCalls' = pullCalls + 1
    /\ quietFill' = (quietFill /\ Len(pushRets) >= Capacity + 1)
    /\ out' = pull_copy(fifo)
    /\ IF getNumAvailableForReading(fifo) > 0
         THEN /\ pcC' = "copy"
              /\ UNCHANGED <<pullRet, emptyPullAt>>
         ELSE /\ pcC' = "idle"
              /\ pullRet' = FALSE
              /\ emptyPullAt' = Len(accepted)
    /\ UNCHANGED <<fifo, pcP, pItem, pushCalls, pushRets, accepted, delivered>>

Consumer_begin ==
    /\ pcC = "idle"
    /\ pullCalls < MaxCalls
    /\ pullCalls' = pullCalls + 1
    /\ quietFill' = (quietFill /\ Len(pushRets) >= Capacity + 1)
    /\ IF getNumAvailableForReading(fifo) > 0
         THEN /\ pcC' = "copy"
              /\ UNCHANGED <<pullRet, emptyPullAt>>
         ELSE /\ pcC' = "idle"
              /\ pullRet' = FALSE
              /\ emptyPullAt' = Len(accepted)
    /\ UNCHANGED <<fifo, pcP, pItem, pushCalls, pushRets, accepted, out, delivered>>

Consumer_copy ==
    /\ pcC = "copy"
    /\ out' = pull_copy(fifo)
    /\ pcC' = "finish"
    /\ UNCHANGED <<fifo, pcP, pItem, pushCalls, pushRets, accepted, pullCalls,
                   pullRet, delivered, quietFill, emptyPullAt>>

Consumer_finish ==
    /\ pcC = "finish"
    /\ fifo' = pull_finish(fifo)
    /\ pullRet' = TRUE
    /\ delivered' = Append(delivered, out)
    /\ pcC' = "idle"
    /\ UNCHANGED <<pcP, pItem, pushCalls, pushRets, accepted, out, pullCalls,
                   quietFill, emptyPullAt>>

NextFifo ==
    \/ Producer_begin /\ UNCHANGED <<pluginVars, unitVars>>
    \/ Producer_copy /\ UNCHANGED <<pluginVars, unitVars>>
    \/ Producer_finish /\ UNCHANGED <<pluginVars, unitVars>>
    \/ Consumer_begin /\ UNCHANGED <<pluginVars, unitVars>>
    \/ Consumer_copy /\ UNCHANGED <<pluginVars, unitVars>>
    \/ Consumer_finish /\ UNCHANGED <<pluginVars, unitVars>>

SpecFifo == Init /\ [][NextFifo]_vars

(***************************************************************************)
(* The audio callback: ZooEQAudioProcessor::processBlock.  The host calls  *)
(* it only after a prepareToPlay has returned and never during one.        *)
(* pcA = "processLeft" and "processRight" are the states in which          *)
(* leftChain.process and rightChain.process are running.                   *)
(***************************************************************************)
audioVars == <<pcA, buffer, blockNo, updates, delayRegisters>>

hostVars == <<pcH, hostCall, prepared, preparing>>

paintVars == <<repaintPending, mags, settingsChanged>>

guiVars == <<pcG, producer, tempIncomingBuffer, monoBuffer, leftChannelFFTPath,
             fftDataFifo, pathFifo, monoChain, shouldShowFFTAnalysis, paintVars>>

chains == <<leftChain, rightChain>>

ghosts == <<writers, readers, lastGenerated>>

\* entry with block number n, and updateFilters' first statement: the
\* settings are read
processBlock_enter(n) ==
    /\ pcA = "idle"
    /\ prepared
    /\ hostCall # "prepareToPlay"
    /\ blockNo' = n
    /\ buffer' = [c \in Channels |-> [block |-> n, filtered |-> FALSE]]
    /\ chainSettigns' = [chainSettigns EXCEPT !["audio"] = getChainSettings(apvts)]
    /\ updates' = 1
    /\ pcA' = "updateLowCutFilters"
    /\ UNCHANGED <<apvts, parametersChanged, chains, sampleFifo, delayRegisters,
                   hostVars, guiVars, ghosts>>

\* the host calls processBlock with the next block, MaxBlocks blocks at most
processBlock_begin ==
    /\ blockNo < MaxBlocks
    /\ processBlock_enter(blockNo + 1)

\* the host keeps calling processBlock for ever: the blocks after the
\* MaxBlocks-th are not told apart, they all carry the number MaxBlocks
processBlock_beginAgain ==
    /\ blockNo = MaxBlocks
    /\ processBlock_enter(MaxBlocks)

processBlock_updateLowCutFilters ==
    /\ pcA = "updateLowCutFilters"
    /\ leftChain' = updateLowCutFilters(leftChain, chainSettigns["audio"])
    /\ rightChain' = updateLowCutFilters(rightChain, chainSettigns["audio"])
    /\ pcA' = "updatePeakFilter"
    /\ UNCHANGED <<apvts, parametersChanged, sampleFifo, chainSettigns, buffer, blockNo,
                   updates, delayRegisters, hostVars, guiVars, ghosts>>

\* mutant: the peak filter is replaced by a new filter object
processBlock_updatePeakFilter_newFilter ==
    /\ pcA = "updatePeakFilter"
    /\ leftChain' = updatePeakFilter(leftChain, chainSettigns["audio"])
    /\ rightChain' = updatePeakFilter(rightChain, chainSettigns["audio"])
    /\ delayRegisters' = [c \in Channels |-> [delayRegisters[c] EXCEPT !.peak = NoItem]]
    /\ pcA' = "updateHighCutFilter"
    /\ UNCHANGED <<apvts, parametersChanged, sampleFifo, chainSettigns, buffer, blockNo,
                   updates, hostVars, guiVars, ghosts>>

processBlock_updatePeakFilter ==
    /\ pcA = "updatePeakFilter"
    /\ leftChain' = updatePeakFilter(leftChain, chainSettigns["audio"])
    /\ rightChain' = updatePeakFilter(rightChain, chainSettigns["audio"])
    /\ pcA' = "updateHighCutFilter"
    /\ UNCHANGED <<apvts, parametersChanged, sampleFifo, chainSettigns, buffer, blockNo,
                   updates, delayRegisters, hostVars, guiVars, ghosts>>

\* the last update; leftChain.process starts
processBlock_updateHighCutFilter ==
    /\ pcA = "updateHighCutFilter"
    /\ leftChain' = updateHighCutFilter(leftChain, chainSettigns["audio"])
    /\ rightChain' = updateHighCutFilter(rightChain, chainSettigns["audio"])
    /\ pcA' = "processLeft"
    /\ UNCHANGED <<apvts, parametersChanged, sampleFifo, chainSettigns, buffer, blockNo,
                   updates, delayRegisters, hostVars, guiVars, ghosts>>

\* leftChain.process returns: channel 0 is filtered; rightChain.process starts
processBlock_processLeft ==
    /\ pcA = "processLeft"
    /\ buffer' = [buffer EXCEPT !["left"].filtered = TRUE]
    /\ delayRegisters' = [delayRegisters EXCEPT
            !["left"] = MonoChain_process(leftChain, @, buffer["left"].block)]
    /\ pcA' = "processRight"
    /\ UNCHANGED <<apvts, parametersChanged, chains, sampleFifo, chainSettigns, blockNo,
                   updates, hostVars, guiVars, ghosts>>

processBlock_processRight ==
    /\ pcA = "processRight"
    /\ buffer' = [buffer EXCEPT !["right"].filtered = TRUE]
    /\ delayRegisters' = [delayRegisters EXCEPT
            !["right"] = MonoChain_process(rightChain, @, buffer["right"].block)]
    /\ pcA' = "leftChannelFifo.update"
    /\ UNCHANGED <<apvts, parametersChanged, chains, sampleFifo, chainSettigns, blockNo,
                   updates, hostVars, guiVars, ghosts>>

\* mutant: update waits until the queue has room
update_waitForRoom(c) ==
    /\ getFreeSpace(sampleFifo[c]) > 0
    /\ sampleFifo' = [sampleFifo EXCEPT ![c] = push(sampleFifo[c], buffer[c].block)]
    /\ writers' = [writers EXCEPT ![<<"sampleFifo", c>>] = @ \cup {"processBlock"}]
    /\ UNCHANGED <<buffer, readers, lastGenerated>>

\* SingleChannelSampleFifo::update(buffer): the channel's block is pushed
\* into the channel's queue; a full queue drops it.  After the second update
\* processBlock returns and its locals are gone.
update(c) ==
    /\ sampleFifo' = [sampleFifo EXCEPT ![c] = push(sampleFifo[c], buffer[c].block)]
    /\ writers' = [writers EXCEPT ![<<"sampleFifo", c>>] = @ \cup {"processBlock"}]
    /\ UNCHANGED <<buffer, readers, lastGenerated>>

processBlock_leftChannelFifo ==
    /\ pcA = "leftChannelFifo.update"
    /\ update("left")
    /\ pcA' = "rightChannelFifo.update"
    /\ UNCHANGED <<apvts, parametersChanged, chains, chainSettigns, blockNo, updates,
                   delayRegisters, hostVars, guiVars>>

processBlock_rightChannelFifo ==
    /\ pcA = "rightChannelFifo.update"
    /\ update("right")
    /\ pcA' = "idle"
    /\ chainSettigns' = [chainSettigns EXCEPT !["audio"] = DefaultSettings]
    /\ UNCHANGED <<apvts, parametersChanged, chains, blockNo, updates, delayRegisters,
                   hostVars, guiVars>>

processBlock ==
    \/ processBlock_begin
    \/ processBlock_updateLowCutFilters
    \/ processBlock_updatePeakFilter
    \/ processBlock_updateHighCutFilter
    \/ processBlock_processLeft
    \/ processBlock_processRight
    \/ processBlock_leftChannelFifo
    \/ processBlock_rightChannelFifo

(***************************************************************************)
(* The host's calls outside the audio callback: setStateInformation and    *)
(* prepareToPlay, on a thread of the host's choice.  Both run              *)
(* updateFilters on the audio chains.                                      *)
(***************************************************************************)
\* a blob that decodes to a valid tree: the state is replaced (which
\* notifies the parameters' listeners), then updateFilters is called
setStateInformation_begin ==
    /\ pcH = "idle"
    /\ \E tree \in StateTrees : apvts' = tree
    /\ parametersChanged' = TRUE
    /\ settingsChanged' = TRUE
    /\ hostCall' = "setStateInformation"
    /\ pcH' = "updateFilters"
    /\ UNCHANGED <<chains, sampleFifo, chainSettigns, audioVars, prepared, preparing,
                   pcG, producer, tempIncomingBuffer, monoBuffer, leftChannelFFTPath,
                   fftDataFifo, pathFifo, monoChain, shouldShowFFTAnalysis,
                   repaintPending, mags, ghosts>>

\* a blob that decodes to no valid tree
setStateInformation_invalid ==
    /\ pcH = "idle"
    /\ UNCHANGED <<apvts, parametersChanged, chains, sampleFifo, chainSettigns,
                   audioVars, hostVars, guiVars, ghosts>>

\* updateFilters' first statement: the settings are read
setStateInformation_updateFilters ==
    /\ pcH = "updateFilters"
    /\ chainSettigns' = [chainSettigns EXCEPT !["host"] = getChainSettings(apvts)]
    /\ pcH' = "updateLowCutFilters"
    /\ UNCHANGED <<apvts, parametersChanged, chains, sampleFifo, audioVars, hostCall,
                   prepared, preparing, guiVars, ghosts>>

setStateInformation_updateLowCutFilters ==
    /\ pcH = "updateLowCutFilters"
    /\ leftChain' = updateLowCutFilters(leftChain, chainSettigns["host"])
    /\ rightChain' = updateLowCutFilters(rightChain, chainSettigns["host"])
    /\ pcH' = "updatePeakFilter"
    /\ UNCHANGED <<apvts, parametersChanged, sampleFifo, chainSettigns, audioVars,
                   hostCall, prepared, preparing, guiVars, ghosts>>

setStateInformation_updatePeakFilter ==
    /\ pcH = "updatePeakFilter"
    /\ leftChain' = updatePeakFilter(leftChain, chainSettigns["host"])
    /\ rightChain' = updatePeakFilter(rightChain, chainSettigns["host"])
    /\ pcH' = "updateHighCutFilter"
    /\ UNCHANGED <<apvts, parametersChanged, sampleFifo, chainSettigns, audioVars,
                   hostCall, prepared, preparing, guiVars, ghosts>>

\* the last update; updateFilters and setStateInformation return, and the
\* local is gone
setStateInformation_updateHighCutFilter ==
    /\ pcH = "updateHighCutFilter"
    /\ leftChain' = updateHighCutFilter(leftChain, chainSettigns["host"])
    /\ rightChain' = updateHighCutFilter(rightChain, chainSettigns["host"])
    /\ chainSettigns' = [chainSettigns EXCEPT !["host"] = DefaultSettings]
    /\ pcH' = "idle"
    /\ hostCall' = "none"
    /\ UNCHANGED <<apvts, parametersChanged, sampleFifo, audioVars, prepared,
                   preparing, guiVars, ghosts>>

\* updateFilters() run from its first statement to its last on one chain
updateFilters(chain, s) ==
    updateHighCutFilter(updatePeakFilter(updateLowCutFilters(chain, s), s), s)

\* leftChain.prepare, rightChain.prepare, updateFilters; then
\* leftChannelFifo.prepare(samplesPerBlock) starts.  No audio callback runs
\* during prepareToPlay, so nothing observes the chains between the
\* statements of this updateFilters.
prepareToPlay_begin ==
    /\ pcH = "idle"
    /\ pcA = "idle"
    /\ hostCall' = "prepareToPlay"
    /\ leftChain' = updateFilters(leftChain, getChainSettings(apvts))
    /\ rightChain' = updateFilters(rightChain, getChainSettings(apvts))
    /\ delayRegisters' = [c \in Channels |-> ClearedRegisters]
    /\ preparing' = preparing \cup {"left"}
    /\ pcH' = "leftChannelFifo.prepare"
    /\ UNCHANGED <<apvts, parametersChanged, sampleFifo, chainSettigns, pcA, buffer,
                   blockNo, updates, prepared, guiVars, ghosts>>

\* leftChannelFifo.prepare ends, rightChannelFifo.prepare starts
prepareToPlay_leftChannelFifo ==
    /\ pcH = "leftChannelFifo.prepare"
    /\ sampleFifo' = [sampleFifo EXCEPT !["left"] = prepare(getCapacity(@))]
    /\ preparing' = (preparing \ {"left"}) \cup {"right"}
    /\ pcH' = "rightChannelFifo.prepare"
    /\ UNCHANGED <<apvts, parametersChanged, chains, chainSettigns, audioVars, hostCall,
                   prepared, guiVars, ghosts>>

\* rightChannelFifo.prepare ends; the oscillator is set up; return
prepareToPlay_rightChannelFifo ==
    /\ pcH = "rightChannelFifo.prepare"
    /\ sampleFifo' = [sampleFifo EXCEPT !["right"] = prepare(getCapacity(@))]
    /\ preparing' = preparing \ {"right"}
    /\ prepared' = TRUE
    /\ hostCall' = "none"
    /\ pcH' = "idle"
    /\ UNCHANGED <<apvts, parametersChanged, chains, chainSettigns, audioVars, guiVars,
                   ghosts>>

setStateInformation ==
    \/ setStateInformation_begin
    \/ setStateInformation_invalid
    \/ setStateInformation_updateFilters
    \/ setStateInformation_updateLowCutFilters
    \/ setStateInformation_updatePeakFilter
    \/ setStateInformation_updateHighCutFilter

prepareToPlay ==
    \/ prepareToPlay_begin
    \/ prepareToPlay_leftChannelFifo
    \/ prepareToPlay_rightChannelFifo

(***************************************************************************)
(* A parameter changes (a slider or button of the editor, or the host's    *)
(* automation): the value is stored and the listeners are told, which for  *)
(* ResponseCurveComponent::parameterValueChanged sets parametersChanged.   *)
(***************************************************************************)
setValueNotifyingHost(inputs) ==
    /\ \E in \in inputs :
         /\ apvts[in[1]] # in[2]
         /\ apvts' = [apvts EXCEPT ![in[1]] = in[2]]
    /\ parametersChanged' = TRUE
    /\ settingsChanged' = TRUE
    /\ UNCHANGED <<chains, sampleFifo, chainSettigns, audioVars, hostVars, pcG, producer,
                   tempIncomingBuffer, monoBuffer, leftChannelFFTPath, fftDataFifo,
                   pathFifo, monoChain, shouldShowFFTAnalysis, repaintPending, mags,
                   ghosts>>

parameterValueChanged == setValueNotifyingHost(ParameterInputs)

(***************************************************************************)
(* The editor, on the message thread: the 60 Hz timer                      *)
(* (ResponseCurveComponent::timerCallback, which runs                      *)
(* PathProducer::process for the left and then the right producer) and the *)
(* Analyser Enable button.                                                 *)
(***************************************************************************)
\* FFTDataGenerator::produceFFTDataForRendering(monoBuffer): the frame
\* computed from the window, named by the newest block of the window
produceFFTDataForRendering(window) == window

\* AnalyserPathGenerator::generatePath(fftData): the path drawn from a frame
generatePath(fftData) == fftData

\* A click on analyserEnableButton flips its toggle state.  Its attachment
\* writes the "Analyser Enable" parameter, whose listener
\* ResponseCurveComponent::parameterValueChanged sets parametersChanged (no
\* value of ChainSettings changes); onClick calls
\* toggleAnalysisEnablement(toggle state).
toggleAnalysisEnablement ==
    /\ pcG = "idle"
    /\ shouldShowFFTAnalysis' = ~shouldShowFFTAnalysis
    /\ parametersChanged' = TRUE
    /\ UNCHANGED <<apvts, chains, sampleFifo, chainSettigns,
                   audioVars, hostVars, pcG, producer, tempIncomingBuffer, monoBuffer,
                   leftChannelFFTPath, fftDataFifo, pathFifo, monoChain, ghosts>>
    /\ UNCHANGED paintVars

\* the timer fires: with the analysis on, leftPathProducer.process starts
timerCallback_begin ==
    /\ pcG = "idle"
    /\ IF shouldShowFFTAnalysis
         THEN pcG' = "sampleLoop" /\ producer' = "leftPathProducer"
         ELSE pcG' = "parametersChanged" /\ producer' = producer
    /\ UNCHANGED <<apvts, parametersChanged, chains, sampleFifo, chainSettigns,
                   audioVars, hostVars, tempIncomingBuffer, monoBuffer,
                   leftChannelFFTPath, fftDataFifo, pathFifo, monoChain,
                   shouldShowFFTAnalysis, ghosts>>
    /\ UNCHANGED paintVars

\* while (getNumCompleteBuffersAvailable() > 0): getAudioBuffer starts and
\* copies the oldest block; a copy made while prepare is clearing the queue
\* gets the block or the cleared slot
process_sampleLoop ==
    /\ pcG = "sampleLoop"
    /\ LET c == leftChannelFifo(producer) IN
         IF getNumAvailableForReading(sampleFifo[c]) > 0
           THEN /\ \E b \in {pull_copy(sampleFifo[c])}
                            \cup (IF c \in preparing THEN {NoItem} ELSE {}) :
                      tempIncomingBuffer' = b
                /\ pcG' = "getAudioBuffer"
           ELSE /\ pcG' = "fftLoop"
                /\ tempIncomingBuffer' = tempIncomingBuffer
    /\ UNCHANGED <<apvts, parametersChanged, chains, sampleFifo, chainSettigns,
                   audioVars, hostVars, producer, monoBuffer, leftChannelFFTPath,
                   fftDataFifo, pathFifo, monoChain, shouldShowFFTAnalysis, ghosts>>
    /\ UNCHANGED paintVars

\* mutant: a full frame queue gives up its oldest frame for the new one
process_getAudioBuffer_dropOldest ==
    /\ pcG = "getAudioBuffer"
    /\ LET c == leftChannelFifo(producer) IN
         /\ sampleFifo' = [sampleFifo EXCEPT ![c] = pull_finish(@)]
         /\ readers' = [readers EXCEPT ![<<"sampleFifo", c>>] = @ \cup {producer}]
    /\ monoBuffer' = [monoBuffer EXCEPT ![producer] = tempIncomingBuffer]
    /\ fftDataFifo' = [fftDataFifo EXCEPT ![producer] =
                          push(IF getFreeSpace(@) > 0 THEN @ ELSE pull(@),
                               produceFFTDataForRendering(tempIncomingBuffer))]
    /\ writers' = [writers EXCEPT ![<<"fftDataFifo", producer>>] = @ \cup {producer}]
    /\ tempIncomingBuffer' = NoItem
    /\ pcG' = "sampleLoop"
    /\ UNCHANGED <<apvts, parametersChanged, chains, chainSettigns, audioVars, hostVars,
                   producer, leftChannelFFTPath, pathFifo, monoChain,
                   shouldShowFFTAnalysis, lastGenerated>>
    /\ UNCHANGED paintVars

\* getAudioBuffer returns; the window is shifted and the block appended;
\* produceFFTDataForRendering pushes the frame into fftDataFifo
process_getAudioBuffer ==
    /\ pcG = "getAudioBuffer"
    /\ LET c == leftChannelFifo(producer) IN
         /\ sampleFifo' = [sampleFifo EXCEPT ![c] = pull_finish(@)]
         /\ readers' = [readers EXCEPT ![<<"sampleFifo", c>>] = @ \cup {producer}]
    /\ monoBuffer' = [monoBuffer EXCEPT ![producer] = tempIncomingBuffer]
    /\ fftDataFifo' = [fftDataFifo EXCEPT ![producer] =
                          push(@, produceFFTDataForRendering(tempIncomingBuffer))]
    /\ writers' = [writers EXCEPT ![<<"fftDataFifo", producer>>] = @ \cup {producer}]
    /\ tempIncomingBuffer' = NoItem
    /\ pcG' = "sampleLoop"
    /\ UNCHANGED <<apvts, parametersChanged, chains, chainSettigns, audioVars, hostVars,
                   producer, leftChannelFFTPath, pathFifo, monoChain,
                   shouldShowFFTAnalysis, lastGenerated>>
    /\ UNCHANGED paintVars

\* while (getNumAvailableFFTDataBlocks() > 0): getFFTData, generatePath
process_fftLoop ==
    /\ pcG = "fftLoop"
    /\ IF getNumAvailableForReading(fftDataFifo[producer]) > 0
         THEN /\ fftDataFifo' = [fftDataFifo EXCEPT ![producer] = pull(@)]
              /\ pathFifo' = [pathFifo EXCEPT ![producer] =
                                 push(@, generatePath(pull_copy(fftDataFifo[producer])))]
              /\ readers' = [readers EXCEPT ![<<"fftDataFifo", producer>>] = @ \cup {producer}]
              /\ writers' = [writers EXCEPT ![<<"pathFifo", producer>>] = @ \cup {producer}]
              /\ lastGenerated' = [lastGenerated EXCEPT ![producer] =
                                      generatePath(pull_copy(fftDataFifo[producer]))]
              /\ pcG' = pcG
         ELSE /\ pcG' = "pathLoop"
              /\ UNCHANGED <<fftDataFifo, pathFifo, ghosts>>
    /\ UNCHANGED <<apvts, parametersChanged, chains, sampleFifo, chainSettigns,
                   audioVars, hostVars, producer, tempIncomingBuffer, monoBuffer,
                   leftChannelFFTPath, monoChain, shouldShowFFTAnalysis>>
    /\ UNCHANGED paintVars

\* mutant: one path is pulled per call (if instead of while)
process_pathLoop_pullOnce ==
    /\ pcG = "pathLoop"
    /\ IF getNumAvailableForReading(pathFifo[producer]) > 0
         THEN /\ pathFifo' = [pathFifo EXCEPT ![producer] = pull(@)]
              /\ leftChannelFFTPath' = [leftChannelFFTPath EXCEPT ![producer] =
                                           pull_copy(pathFifo[producer])]
              /\ readers' = [readers EXCEPT ![<<"pathFifo", producer>>] = @ \cup {producer}]
         ELSE UNCHANGED <<pathFifo, leftChannelFFTPath, readers>>
    /\ IF producer = "leftPathProducer"
         THEN pcG' = "sampleLoop" /\ producer' = "rightPathProducer"
         ELSE pcG' = "parametersChanged" /\ producer' = producer
    /\ UNCHANGED <<apvts, parametersChanged, chains, sampleFifo, chainSettigns,
                   audioVars, hostVars, tempIncomingBuffer, monoBuffer, fftDataFifo,
                   monoChain, shouldShowFFTAnalysis, writers, lastGenerated>>
    /\ UNCHANGED paintVars

\* while (getNumPathsAvailable()): getPath(leftChannelFFTPath); then process
\* returns, and rightPathProducer.process or the rest of timerCallback follows
process_pathLoop ==
    /\ pcG = "pathLoop"
    /\ IF getNumAvailableForReading(pathFifo[producer]) > 0
         THEN /\ pathFifo' = [pathFifo EXCEPT ![producer] = pull(@)]
              /\ leftChannelFFTPath' = [leftChannelFFTPath EXCEPT ![producer] =
                                           pull_copy(pathFifo[producer])]
              /\ readers' = [readers EXCEPT ![<<"pathFifo", producer>>] = @ \cup {producer}]
              /\ pcG' = pcG
              /\ producer' = producer
         ELSE /\ IF producer = "leftPathProducer"
                   THEN pcG' = "sampleLoop" /\ producer' = "rightPathProducer"
                   ELSE pcG' = "parametersChanged" /\ producer' = producer
              /\ UNCHANGED <<pathFifo, leftChannelFFTPath, readers>>
    /\ UNCHANGED <<apvts, parametersChanged, chains, sampleFifo, chainSettigns,
                   audioVars, hostVars, tempIncomingBuffer, monoBuffer, fftDataFifo,
                   monoChain, shouldShowFFTAnalysis, writers, lastGenerated>>
    /\ UNCHANGED paintVars

\* parametersChanged.compareAndSetBool(false, true); without a change,
\* repaint() and return
timerCallback_parametersChanged ==
    /\ pcG = "parametersChanged"
    /\ IF parametersChanged
         THEN /\ parametersChanged' = FALSE
              /\ pcG' = "updateChain"
              /\ repaintPending' = repaintPending
         ELSE /\ parametersChanged' = parametersChanged
              /\ pcG' = "idle"
              /\ repaintPending' = TRUE
    /\ UNCHANGED <<mags, settingsChanged>>
    /\ UNCHANGED <<apvts, chains, sampleFifo, chainSettigns, audioVars, hostVars,
                   producer, tempIncomingBuffer, monoBuffer, leftChannelFFTPath,
                   fftDataFifo, pathFifo, monoChain, shouldShowFFTAnalysis, ghosts>>

\* mutant: the flag is cleared after updateChain instead of by the
\* compare-and-set
timerCallback_updateChain_thenClear ==
    /\ pcG = "updateChain"
    /\ monoChain' = updateChain(monoChain, getChainSettings(apvts))
    /\ parametersChanged' = FALSE
    /\ pcG' = "idle"
    /\ repaintPending' = TRUE
    /\ settingsChanged' = TRUE
    /\ UNCHANGED mags
    /\ UNCHANGED <<apvts, chains, sampleFifo, chainSettigns,
                   audioVars, hostVars, producer, tempIncomingBuffer, monoBuffer,
                   leftChannelFFTPath, fftDataFifo, pathFifo, shouldShowFFTAnalysis,
                   ghosts>>

\* updateChain(), repaint() and return
timerCallback_updateChain ==
    /\ pcG = "updateChain"
    /\ monoChain' = updateChain(monoChain, getChainSettings(apvts))
    /\ pcG' = "idle"
    /\ repaintPending' = TRUE
    /\ settingsChanged' = TRUE
    /\ UNCHANGED mags
    /\ UNCHANGED <<apvts, parametersChanged, chains, sampleFifo, chainSettigns,
                   audioVars, hostVars, producer, tempIncomingBuffer, monoBuffer,
                   leftChannelFFTPath, fftDataFifo, pathFifo, shouldShowFFTAnalysis,
                   ghosts>>

(***************************************************************************)
(* ResponseCurveComponent::paint: the response curve is computed from      *)
(* monoChain, one magnitude per horizontal pixel.  The model keeps every   *)
(* magnitude as its level in decibels, so the product of the stages'       *)
(* magnitudes is the sum of their levels; it computes the curve at the     *)
(* frequencies of Frequencies.                                             *)
(***************************************************************************)
\* the frequencies of the pixels the model computes: both ends of the
\* display range of mapToLog10 and the default centre of the peak band
Frequencies == {20, 750, 20000}

\* the level a cut section is given below (low cut) or above (high cut) its
\* cutoff; at and beyond the cutoff it passes at 0 dB
StopbandDb == -60

\* juce::Decibels::gainToDecibels' default floor
MinusInfinityDb == -100

\* Coefficients::getMagnitudeForFrequency, as a level in dB
getMagnitudeForFrequency(coefficients, freq) ==
    CASE coefficients[1] = "peak" ->
            IF freq = coefficients[2] THEN coefficients[4] ELSE 0
      [] coefficients[1] = "lowCut" ->
            IF freq < coefficients[2] THEN StopbandDb ELSE 0
      [] coefficients[1] = "highCut" ->
            IF freq > coefficients[2] THEN StopbandDb ELSE 0
      [] OTHER -> 0

\* Decibels::gainToDecibels(mag) of a magnitude kept as its level
gainToDecibels(level) == IF level > MinusInfinityDb THEN level ELSE MinusInfinityDb

\* one "if (!cut.isBypassed<i>()) mag *= cut.get<i>()..." statement
sectionMagnitude(cut, i, freq) ==
    IF ~cut[i].bypassed THEN getMagnitudeForFrequency(cut[i].coefficients, freq) ELSE 0

\* mutant: the peak band is multiplied in whether bypassed or not
magnitude_peakAlways(chain, freq) ==
    getMagnitudeForFrequency(chain.peak, freq)
        + (IF ~chain.lowCutBypassed
             THEN sectionMagnitude(chain.lowCut, 0, freq) + sectionMagnitude(chain.lowCut, 1, freq)
                  + sectionMagnitude(chain.lowCut, 2, freq) + sectionMagnitude(chain.lowCut, 3, freq)
             ELSE 0)
        + (IF ~chain.highCutBypassed
             THEN sectionMagnitude(chain.highCut, 0, freq) + sectionMagnitude(chain.highCut, 1, freq)
                  + sectionMagnitude(chain.highCut, 2, freq) + sectionMagnitude(chain.highCut, 3, freq)
             ELSE 0)

\* the body of paint's loop over the pixels: mag after the three bands
magnitude(chain, freq) ==
    (IF ~chain.peakBypassed THEN getMagnitudeForFrequency(chain.peak, freq) ELSE 0)
        + (IF ~chain.lowCutBypassed
             THEN sectionMagnitude(chain.lowCut, 0, freq) + sectionMagnitude(chain.lowCut, 1, freq)
                  + sectionMagnitude(chain.lowCut, 2, freq) + sectionMagnitude(chain.lowCut, 3, freq)
             ELSE 0)
        + (IF ~chain.highCutBypassed
             THEN sectionMagnitude(chain.highCut, 0, freq) + sectionMagnitude(chain.highCut, 1, freq)
                  + sectionMagnitude(chain.highCut, 2, freq) + sectionMagnitude(chain.highCut, 3, freq)
             ELSE 0)

\* paint() runs on the message thread some time after repaint(): mags is
\* computed anew from monoChain
paint ==
    /\ pcG = "idle"
    /\ repaintPending
    /\ mags' = [freq \in Frequencies |-> gainToDecibels(magnitude(monoChain, freq))]
    /\ settingsChanged' = FALSE
    /\ repaintPending' = FALSE
    /\ UNCHANGED <<apvts, parametersChanged, chains, sampleFifo, chainSettigns,
                   audioVars, hostVars, pcG, producer, tempIncomingBuffer, monoBuffer,
                   leftChannelFFTPath, fftDataFifo, pathFifo, monoChain,
                   shouldShowFFTAnalysis, ghosts>>

process ==
    \/ process_sampleLoop
    \/ process_getAudioBuffer
    \/ process_fftLoop
    \/ process_pathLoop

timerCallback ==
    \/ timerCallback_begin
    \/ process
    \/ timerCallback_parametersChanged
    \/ timerCallback_updateChain

NextAnalyser ==
    \/ processBlock_begin /\ UNCHANGED <<fifoVars, unitVars>>
    \/ processBlock_updateLowCutFilters /\ UNCHANGED <<fifoVars, unitVars>>
    \/ processBlock_updatePeakFilter /\ UNCHANGED <<fifoVars, unitVars>>
    \/ processBlock_updateHighCutFilter /\ UNCHANGED <<fifoVars, unitVars>>
    \/ processBlock_processLeft /\ UNCHANGED <<fifoVars, unitVars>>
    \/ processBlock_processRight /\ UNCHANGED <<fifoVars, unitVars>>
    \/ processBlock_leftChannelFifo /\ UNCHANGED <<fifoVars, unitVars>>
    \/ processBlock_rightChannelFifo /\ UNCHANGED <<fifoVars, unitVars>>
    \/ prepareToPlay_begin /\ UNCHANGED <<fifoVars, unitVars>>
    \/ prepareToPlay_leftChannelFifo /\ UNCHANGED <<fifoVars, unitVars>>
    \/ prepareToPlay_rightChannelFifo /\ UNCHANGED <<fifoVars, unitVars>>
    \/ toggleAnalysisEnablement /\ UNCHANGED <<fifoVars, unitVars>>
    \/ timerCallback_begin /\ UNCHANGED <<fifoVars, unitVars>>
    \/ process_sampleLoop /\ UNCHANGED <<fifoVars, unitVars>>
    \/ process_getAudioBuffer /\ UNCHANGED <<fifoVars, unitVars>>
    \/ process_fftLoop /\ UNCHANGED <<fifoVars, unitVars>>
    \/ process_pathLoop /\ UNCHANGED <<fifoVars, unitVars>>
    \/ timerCallback_parametersChanged /\ UNCHANGED <<fifoVars, unitVars>>
    \/ timerCallback_updateChain /\ UNCHANGED <<fifoVars, unitVars>>

SpecAnalyser == Init /\ [][NextAnalyser]_vars

NextFilters ==
    \/ processBlock_begin /\ UNCHANGED <<fifoVars, unitVars>>
    \/ processBlock_updateLowCutFilters /\ UNCHANGED <<fifoVars, unitVars>>
    \/ processBlock_updatePeakFilter /\ UNCHANGED <<fifoVars, unitVars>>
    \/ processBlock_updateHighCutFilter /\ UNCHANGED <<fifoVars, unitVars>>
    \/ processBlock_processLeft /\ UNCHANGED <<fifoVars, unitVars>>
    \/ processBlock_processRight /\ UNCHANGED <<fifoVars, unitVars>>
    \/ processBlock_leftChannelFifo /\ UNCHANGED <<fifoVars, unitVars>>
    \/ processBlock_rightChannelFifo /\ UNCHANGED <<fifoVars, unitVars>>
    \/ setStateInformation_begin /\ UNCHANGED <<fifoVars, unitVars>>
    \/ setStateInformation_invalid /\ UNCHANGED <<fifoVars, unitVars>>
    \/ prepareToPlay_begin /\ UNCHANGED <<fifoVars, unitVars>>
    \/ prepareToPlay_leftChannelFifo /\ UNCHANGED <<fifoVars, unitVars>>
    \/ prepareToPlay_rightChannelFifo /\ UNCHANGED <<fifoVars, unitVars>>
    \/ setStateInformation_updateFilters /\ UNCHANGED <<fifoVars, unitVars>>
    \/ setStateInformation_updateLowCutFilters /\ UNCHANGED <<fifoVars, unitVars>>
    \/ setStateInformation_updatePeakFilter /\ UNCHANGED <<fifoVars, unitVars>>
    \/ setStateInformation_updateHighCutFilter /\ UNCHANGED <<fifoVars, unitVars>>
    \/ parameterValueChanged /\ UNCHANGED <<fifoVars, unitVars>>

SpecFilters == Init /\ [][NextFilters]_vars

\* The analyser's pipeline on its own: the host prepares once and then
\* calls processBlock, the timer polls with the analysis on, and no
\* parameter changes.
NextPipeline ==
    \/ processBlock_begin /\ UNCHANGED <<fifoVars, unitVars>>
    \/ processBlock_updateLowCutFilters /\ UNCHANGED <<fifoVars, unitVars>>
    \/ processBlock_updatePeakFilter /\ UNCHANGED <<fifoVars, unitVars>>
    \/ processBlock_updateHighCutFilter /\ UNCHANGED <<fifoVars, unitVars>>
    \/ processBlock_processLeft /\ UNCHANGED <<fifoVars, unitVars>>
    \/ processBlock_processRight /\ UNCHANGED <<fifoVars, unitVars>>
    \/ processBlock_leftChannelFifo /\ UNCHANGED <<fifoVars, unitVars>>
    \/ processBlock_rightChannelFifo /\ UNCHANGED <<fifoVars, unitVars>>
    \/ ~prepared /\ prepareToPlay_begin /\ UNCHANGED <<fifoVars, unitVars>>
    \/ prepareToPlay_leftChannelFifo /\ UNCHANGED <<fifoVars, unitVars>>
    \/ prepareToPlay_rightChannelFifo /\ UNCHANGED <<fifoVars, unitVars>>
    \/ timerCallback_begin /\ UNCHANGED <<fifoVars, unitVars>>
    \/ process_sampleLoop /\ UNCHANGED <<fifoVars, unitVars>>
    \/ process_getAudioBuffer /\ UNCHANGED <<fifoVars, unitVars>>
    \/ process_fftLoop /\ UNCHANGED <<fifoVars, unitVars>>
    \/ process_pathLoop /\ UNCHANGED <<fifoVars, unitVars>>
    \/ timerCallback_parametersChanged /\ UNCHANGED <<fifoVars, unitVars>>

SpecPipeline == InitPipeline /\ [][NextPipeline]_vars

\* The steps of the message thread's timer: timerCallback with both
\* PathProducer::process calls in it.
timerSteps ==
    \/ timerCallback_begin /\ UNCHANGED <<fifoVars, unitVars>>
    \/ process_sampleLoop /\ UNCHANGED <<fifoVars, unitVars>>
    \/ process_getAudioBuffer /\ UNCHANGED <<fifoVars, unitVars>>
    \/ process_fftLoop /\ UNCHANGED <<fifoVars, unitVars>>
    \/ process_pathLoop /\ UNCHANGED <<fifoVars, unitVars>>
    \/ timerCallback_parametersChanged /\ UNCHANGED <<fifoVars, unitVars>>

\* The pipeline with an audio callback that never stops: the host prepares
\* once and calls processBlock for ever, the timer polls with the analysis
\* on.  The message thread is scheduled fairly: a timerCallback that can
\* take a step takes it.  Nothing is assumed about how fast the audio
\* callback runs next to it.
NextPolling ==
    \/ processBlock_begin /\ UNCHANGED <<fifoVars, unitVars>>
    \/ processBlock_beginAgain /\ UNCHANGED <<fifoVars, unitVars>>
    \/ processBlock_updateLowCutFilters /\ UNCHANGED <<fifoVars, unitVars>>
    \/ processBlock_updatePeakFilter /\ UNCHANGED <<fifoVars, unitVars>>
    \/ processBlock_updateHighCutFilter /\ UNCHANGED <<fifoVars, unitVars>>
    \/ processBlock_processLeft /\ UNCHANGED <<fifoVars, unitVars>>
    \/ processBlock_processRight /\ UNCHANGED <<fifoVars, unitVars>>
    \/ processBlock_leftChannelFifo /\ UNCHANGED <<fifoVars, unitVars>>
    \/ processBlock_rightChannelFifo /\ UNCHANGED <<fifoVars, unitVars>>
    \/ ~prepared /\ prepareToPlay_begin /\ UNCHANGED <<fifoVars, unitVars>>
    \/ prepareToPlay_leftChannelFifo /\ UNCHANGED <<fifoVars, unitVars>>
    \/ prepareToPlay_rightChannelFifo /\ UNCHANGED <<fifoVars, unitVars>>
    \/ timerSteps

SpecPolling == Init /\ [][NextPolling]_vars /\ WF_vars(timerSteps)

\* The response curve on its own: parameters change (sliders, buttons, host
\* automation), the timer polls, paint follows repaint.
CurveInputs ==
    {<<"lowCutFreq", 20000>>, <<"lowCutFreq", 20>>,
     <<"lowCutSlope", 1>>, <<"lowCutSlope", 0>>,
     <<"lowCutBypassed", TRUE>>, <<"lowCutBypassed", FALSE>>,
     <<"peakGainInDecibels", 12>>,
     <<"peakBypassed", TRUE>>, <<"peakBypassed", FALSE>>}

NextCurve ==
    \/ setValueNotifyingHost(CurveInputs) /\ UNCHANGED <<fifoVars, unitVars>>
    \/ timerCallback_begin /\ UNCHANGED <<fifoVars, unitVars>>
    \/ process_sampleLoop /\ UNCHANGED <<fifoVars, unitVars>>
    \/ process_fftLoop /\ UNCHANGED <<fifoVars, unitVars>>
    \/ process_pathLoop /\ UNCHANGED <<fifoVars, unitVars>>
    \/ timerCallback_parametersChanged /\ UNCHANGED <<fifoVars, unitVars>>
    \/ timerCallback_updateChain /\ UNCHANGED <<fifoVars, unitVars>>
    \/ paint /\ UNCHANGED <<fifoVars, unitVars>>

SpecCurve == Init /\ [][NextCurve]_vars

(***************************************************************************)
(* The sliding window sample by sample: the body of the first loop of      *)
(* PathProducer::process.  Positions are counted from 1.                   *)
(***************************************************************************)
RECURSIVE copy_ascending(_, _, _, _, _)
\* num samples of w from position src on are copied to position dest on,
\* lowest position first; k samples are done
copy_ascending(w, dest, src, num, k) ==
    IF k >= num THEN w
    ELSE copy_ascending([w EXCEPT ![dest + k] = w[src + k]], dest, src, num, k + 1)

RECURSIVE copy_descending(_, _, _, _, _)
\* the same copy, highest position first; k samples are left to do
copy_descending(w, dest, src, num, k) ==
    IF k <= 0 THEN w
    ELSE copy_descending([w EXCEPT ![dest + k - 1] = w[src + k - 1]], dest, src, num, k - 1)

\* FloatVectorOperations::copy(dest, src, num) inside one buffer: a plain
\* memory copy.  For source and destination ranges that overlap its result
\* is not defined; the outcomes are those of a copy that starts at the low
\* end and of a copy that starts at the high end.
FloatVectorOperations_copy(w, dest, src, num) ==
    IF num > 0 /\ dest # src /\ dest < src + num /\ src < dest + num
      THEN {copy_ascending(w, dest, src, num, 0), copy_descending(w, dest, src, num, num)}
      ELSE {copy_ascending(w, dest, src, num, 0)}

\* FloatVectorOperations::copy from tempIncomingBuffer into monoBuffer: the
\* block's samples are written from position dest on
copyFromBlock(w, dest, block) ==
    [i \in 1 .. Len(w) |->
        IF i >= dest /\ i < dest + Len(block) THEN block[i - dest + 1] ELSE w[i]]

\* getAudioBuffer has pulled a block of size samples, size at most the
\* length of the window: the window is shifted down by size and the block
\* is copied to its end
process_shiftAndAppend ==
    \E size \in 1 .. WindowSize :
      \E block \in [1 .. size -> Samples] :
        \E shifted \in FloatVectorOperations_copy(monoBufferSamples, 1, size + 1,
                                                  Len(monoBufferSamples) - size) :
          /\ monoBufferSamples' =
                 copyFromBlock(shifted, Len(monoBufferSamples) - size + 1, block)
          /\ tempIncomingSamples' = block
          /\ monoBufferBefore' = monoBufferSamples

NextWindow ==
    process_shiftAndAppend
        /\ UNCHANGED <<fifoVars, pluginVars, pathVars, blockVars, busVars, editorVars,
                       trackVars>>

\* the plug-in as constructed, with a window of any contents
InitSamples == InitFifo /\ InitPlugin /\ InitWindow /\ InitPathNone /\ InitBlockSize /\ InitBuses
                   /\ InitEditor /\ InitTracking

SpecWindow == InitSamples /\ [][NextWindow]_vars

(***************************************************************************)
(* AnalyserPathGenerator::generatePath, point by point.  Levels are whole  *)
(* decibels, frequencies whole Hz, coordinates whole pixels.               *)
(***************************************************************************)
\* juce::jmap(v, sourceMin, sourceMax, targetMin, targetMax) in float
\* arithmetic: targetMin + (v - sourceMin) * (targetMax - targetMin)
\*                                          / (sourceMax - sourceMin)
jmap(v, sourceMin, sourceMax, targetMin, targetMax) ==
    IF v = NaN \/ (~isfinite(v) /\ targetMax = targetMin) THEN NaN
    ELSE IF ~isfinite(v)
      THEN (IF (v = PlusInfinity) = (targetMax > targetMin)
              THEN PlusInfinity ELSE MinusInfinity)
    ELSE targetMin + ((v - sourceMin) * (targetMax - targetMin)) \div (sourceMax - sourceMin)

\* fftBounds as generatePath uses it: top = getY(), bottom = getHeight()
top == 0
bottom == 48

\* the lambda map of generatePath: the level v as a y coordinate
map(v) == jmap(v, negativeInfinity, 0, bottom, top)

\* floor(mapFromLog10(binFreq, 20, 20000) * w) for a width w = 3 * m:
\* the largest k with 10^k <= (binFreq / 20)^m, below 0 for binFreq < 20
binX(binFreq, w) ==
    LET m == w \div 3
        f == binFreq ^ m
        lo == 20 ^ m
    IN  IF f >= lo
          THEN CHOOSE k \in 0 .. 5 : lo * 10 ^ k <= f /\ f < lo * 10 ^ (k + 1)
          ELSE 0 - (CHOOSE k \in 1 .. 3 : f * 10 ^ k >= lo /\ f * 10 ^ (k - 1) < lo)

\* you can draw line-to's every 'pathResolution' bins
pathResolution == 2

RECURSIVE generatePath_lineTo(_, _, _, _, _)
\* the for loop of generatePath from bin binNum on: a bin whose y is finite
\* gets a point (lineTo), any other bin is passed over.  A point is kept
\* with the bin it was drawn for.
generatePath_lineTo(p, data, binNum, w, bw) ==
    IF binNum >= NumBins THEN p
    ELSE LET y == map(data[binNum])
             q == IF isfinite(y)
                    THEN Append(p, [bin |-> binNum, x |-> binX(binNum * bw, w), y |-> y])
                    ELSE p
         IN  generatePath_lineTo(q, data, binNum + pathResolution, w, bw)

\* the path generatePath pushes: startNewSubPath(0, map(renderData[0])),
\* then the loop
generatePath_path(data, w, bw) ==
    generatePath_lineTo(<<[bin |-> 0, x |-> 0, y |-> map(data[0])]>>, data, 1, w, bw)

\* process has pulled a frame and calls generatePath on it; one call is
\* followed
generatePath_call ==
    \E fftData \in [0 .. NumBins - 1 -> Levels] :
        /\ path = <<>>
        /\ renderData' = fftData
        /\ path' = generatePath_path(fftData, width, binWidth)
        /\ UNCHANGED <<binWidth, width>>

NextPath ==
    generatePath_call
        /\ UNCHANGED <<fifoVars, pluginVars, windowVars, blockVars, busVars, editorVars,
                       trackVars>>

\* the plug-in as constructed, at any of the sample rates and widths
InitPaths == InitFifo /\ InitPlugin /\ InitWindowZero /\ InitPath /\ InitBlockSize /\ InitBuses
                 /\ InitEditor /\ InitTracking

SpecPath == InitPaths /\ [][NextPath]_vars

\* The steps of the timer in NextCurve; startTimerHz(60) keeps the timer
\* firing, so a timerCallback that can take a step takes it.
curveTimerSteps ==
    \/ timerCallback_begin /\ UNCHANGED <<fifoVars, unitVars>>
    \/ process_sampleLoop /\ UNCHANGED <<fifoVars, unitVars>>
    \/ process_fftLoop /\ UNCHANGED <<fifoVars, unitVars>>
    \/ process_pathLoop /\ UNCHANGED <<fifoVars, unitVars>>
    \/ timerCallback_parametersChanged /\ UNCHANGED <<fifoVars, unitVars>>
    \/ timerCallback_updateChain /\ UNCHANGED <<fifoVars, unitVars>>

SpecCurveFair == SpecCurve /\ WF_vars(curveTimerSteps)


(***************************************************************************)
(* Claims about the queue, checked under SpecFifo.                         *)
(***************************************************************************)
IsPrefix(s, t) == Len(s) <= Len(t) /\ \A i \in 1 .. Len(s) : s[i] = t[i]

\* C1: whatever the interleaving of the producer's and the consumer's steps,
\* the items the successful pulls returned are a prefix of the items the
\* successful pushes accepted: same order, none twice, none altered.
C1_FifoOrder == IsPrefix(delivered, accepted)

\* more items than slots were delivered (the cursors wrapped) and a push is
\* in progress while the consumer has just been served
C1_Witness == Len(delivered) > Capacity /\ pcP = "copy" /\ pullRet

\* C2: a push that finds the queue full returns false in that same step
\* (it never waits for room), and leaves the cursors, the number of items
\* available, every slot and so the oldest item as they were.
C2_PushOnFull ==
    /\ [][(pcP = "idle" /\ pushCalls' # pushCalls /\ getFreeSpace(fifo) <= 0)
            => /\ pcP' = "idle"
               /\ pushRets' = Append(pushRets, FALSE)
               /\ accepted' = accepted
               /\ fifo' = fifo
               /\ getNumAvailableForReading(fifo') = Capacity
               /\ pull_copy(fifo') = pull_copy(fifo)]_vars
    /\ []((pcP = "idle" /\ pushCalls < MaxCalls) => ENABLED Producer_begin)

\* a push has just been rejected: the queue is still full
C2_Witness ==
    /\ pcP = "idle"
    /\ pushRets # <<>>
    /\ pushRets[Len(pushRets)] = FALSE
    /\ getNumAvailableForReading(fifo) = Capacity
    /\ delivered # <<>>

\* C3: a pull that finds the queue empty returns false and changes neither
\* the output argument nor the cursors nor the number available; the first
\* item delivered after it is the first item pushed after it.
C3_PullOnEmpty ==
    /\ [][(pcC = "idle" /\ pullCalls' # pullCalls
             /\ getNumAvailableForReading(fifo) = 0)
            => /\ pcC' = "idle"
               /\ pullRet' = FALSE
               /\ out' = out
               /\ fifo' = fifo
               /\ delivered' = delivered]_vars
    /\ []((emptyPullAt >= 0 /\ Len(delivered) > emptyPullAt)
            => /\ Len(accepted) > emptyPullAt
               /\ delivered[emptyPullAt + 1] = accepted[emptyPullAt + 1])

\* a pull failed on an empty queue after items had gone through it, and a
\* later push and pull went through
C3_Witness ==
    /\ emptyPullAt >= Capacity
    /\ Len(delivered) > emptyPullAt
    /\ out = accepted[emptyPullAt + 1]

\* C4: Capacity+1 pushes into the freshly prepared queue with no pull in
\* between: the first Capacity return true, the last false, Capacity items
\* are available; the pulls that follow return the first item first and
\* never the overflow item.
C4_Overflow ==
    (quietFill /\ Len(pushRets) >= Capacity + 1)
        => /\ \A i \in 1 .. Capacity : pushRets[i] = TRUE
           /\ pushRets[Capacity + 1] = FALSE
           /\ (pullCalls = 0 => getNumAvailableForReading(fifo) = Capacity)
           /\ (delivered # <<>> => delivered[1] = 1)
           /\ \A i \in 1 .. Len(delivered) : delivered[i] # Capacity + 1

\* the queue was filled, overflowed, and then drained
C4_Witness ==
    /\ quietFill
    /\ Len(pushRets) >= Capacity + 1
    /\ Len(delivered) = Capacity

(***************************************************************************)
(* Claims about the queues of the plug-in, checked under SpecAnalyser.     *)
(***************************************************************************)
\* the PathProducer that belongs to a channel
ChannelProducer(c) == IF c = "left" THEN "leftPathProducer" ELSE "rightPathProducer"

\* C5: every queue has at most one context that ever pushed into it and at
\* most one that ever pulled from it; a channel's sample queue is pushed
\* into only by processBlock and pulled from only by that channel's
\* PathProducer.
C5_OneWriterOneReader ==
    /\ \A q \in QueueIds : Cardinality(writers[q]) <= 1 /\ Cardinality(readers[q]) <= 1
    /\ \A c \in Channels :
         /\ writers[<<"sampleFifo", c>>] \subseteq {"processBlock"}
         /\ readers[<<"sampleFifo", c>>] \subseteq {ChannelProducer(c)}

\* every queue of the plug-in has been pushed into and pulled from
C5_Witness == \A q \in QueueIds : writers[q] # {} /\ readers[q] # {}

\* C6: while prepare runs on a sample queue, no pull (getAudioBuffer of the
\* PathProducer reading that queue) and no push (processBlock's update of
\* that queue) is in progress on it.
C6_PrepareAlone ==
    \A c \in preparing :
        /\ ~(pcG = "getAudioBuffer" /\ leftChannelFifo(producer) = c)
        /\ pcA # (IF c = "left" THEN "leftChannelFifo.update"
                               ELSE "rightChannelFifo.update")

\* C9: a processBlock that has started can always take its next step,
\* whatever the state of the sample queues, and the steps that hand the
\* block to the sample queues find both channels filtered and leave the
\* buffer as it is, whether the push went through or the block was dropped.
C9_AudioNeverWaits ==
    /\ [](pcA # "idle" => ENABLED processBlock)
    /\ [][(pcA \in {"leftChannelFifo.update", "rightChannelFifo.update"} /\ pcA' # pcA)
            => /\ buffer' = buffer
               /\ \A c \in Channels : buffer[c].filtered /\ buffer[c].block = blockNo]_vars

\* the left queue was full of older blocks when processBlock offered it the
\* block just filtered: the block was dropped and processBlock goes on
C9_Witness ==
    /\ pcA = "rightChannelFifo.update"
    /\ getNumAvailableForReading(sampleFifo["left"]) = NumSlots
    /\ \A i \in DOMAIN sampleFifo["left"].buffers :
         sampleFifo["left"].buffers[i] # buffer["left"].block
    /\ buffer["left"].filtered

\* C10: in a step that starts and ends with the analysis switch off, no
\* queue is pushed into or pulled from (a sample queue changes only by the
\* prepare of prepareToPlay), and no window, frame or visible path changes.
C10_NoTrafficWhileOff ==
    [][(~shouldShowFFTAnalysis /\ ~shouldShowFFTAnalysis')
         => /\ \A c \in Channels : sampleFifo'[c] = sampleFifo[c] \/ c \in preparing
            /\ fftDataFifo' = fftDataFifo
            /\ pathFifo' = pathFifo
            /\ monoBuffer' = monoBuffer
            /\ leftChannelFFTPath' = leftChannelFFTPath]_vars

(***************************************************************************)
(* Claims about the filter chains, checked under SpecFilters.              *)
(***************************************************************************)
\* C7: when leftChain.process or rightChain.process of a block runs, this
\* processBlock has run updateFilters once and both chains are configured
\* from the settings that updateFilters read at the start of the block.
C7_ChainsFromThisBlock ==
    pcA \in {"processLeft", "processRight"}
        => /\ updates = 1
           /\ Configured(leftChain, chainSettigns["audio"])
           /\ Configured(rightChain, chainSettigns["audio"])

\* C8: no step taken while leftChain.process or rightChain.process is
\* running changes a coefficient or a bypass flag of the audio chains.
C8_ChainsStableWhileFiltering ==
    [][(pcA \in {"processLeft", "processRight"})
         => (leftChain' = leftChain /\ rightChain' = rightChain)]_vars

\* C11: when PathProducer::process returns, the producer's path queue is
\* empty and the path getPath() returns is the path generatePath made last
\* (which is the path shown before the call if the call generated none).
C11_LatestWins ==
    [][(pcG = "pathLoop" /\ pcG' # "pathLoop")
         => /\ getNumAvailableForReading(pathFifo'[producer]) = 0
            /\ leftChannelFFTPath'[producer] = lastGenerated'[producer]]_vars

\* two paths were generated in one process() call; the first has been
\* pulled and is shown, the newer one is still in the path queue
C11_Witness ==
    /\ pcG = "pathLoop"
    /\ getNumAvailableForReading(pathFifo[producer]) = 1
    /\ leftChannelFFTPath[producer] = 1
    /\ lastGenerated[producer] = 2

(***************************************************************************)
(* Claims about the response curve, checked under SpecCurve.               *)
(***************************************************************************)
RECURSIVE SumOfLevels(_, _, _)
\* the product of the magnitudes (the sum of the levels) of the sections S
\* of a cut band
SumOfLevels(cut, S, freq) ==
    IF S = {} THEN 0
    ELSE LET i == CHOOSE j \in S : TRUE
         IN  getMagnitudeForFrequency(cut[i].coefficients, freq)
                 + SumOfLevels(cut, S \ {i}, freq)

\* the non-bypassed sections of a cut band, none if the band is bypassed
ActiveSections(bandBypassed, cut) ==
    IF bandBypassed THEN {} ELSE {i \in Sections : ~cut[i].bypassed}

\* the product of the magnitudes of exactly the active stages of a chain
ProductOfActiveStages(chain, freq) ==
    (IF chain.peakBypassed THEN 0 ELSE getMagnitudeForFrequency(chain.peak, freq))
        + SumOfLevels(chain.lowCut, ActiveSections(chain.lowCutBypassed, chain.lowCut), freq)
        + SumOfLevels(chain.highCut, ActiveSections(chain.highCutBypassed, chain.highCut), freq)

\* C12 as stated: every magnitude paint() computes is the product of the
\* magnitudes of exactly the active stages of monoChain.
C12_ProductOfActiveStages ==
    [][(repaintPending /\ ~repaintPending')
         => \A freq \in Frequencies :
               mags'[freq] = ProductOfActiveStages(monoChain, freq)]_vars

\* C12 amended: every magnitude paint() computes is the product of the
\* magnitudes of exactly the active stages of monoChain, as a level in
\* decibels that is never below the floor of gainToDecibels, -100 dB.
C12_ProductWithFloor ==
    [][(repaintPending /\ ~repaintPending')
         => \A freq \in Frequencies :
               /\ mags'[freq] >= MinusInfinityDb
               /\ ProductOfActiveStages(monoChain, freq) >= MinusInfinityDb
                     => mags'[freq] = ProductOfActiveStages(monoChain, freq)
               /\ ProductOfActiveStages(monoChain, freq) < MinusInfinityDb
                     => mags'[freq] = MinusInfinityDb]_vars

\* paint() has computed the curve of a chain whose peak band is bypassed
\* while its coefficients boost by 12 dB at 750 Hz, and whose low cut has
\* an active section and a bypassed section that still holds coefficients
C12_Witness ==
    /\ mags # <<>>
    /\ \A freq \in Frequencies : mags[freq] = gainToDecibels(magnitude(monoChain, freq))
    /\ monoChain.peakBypassed
    /\ monoChain.peak[4] = 12
    /\ mags[750] = StopbandDb
    /\ ~monoChain.lowCutBypassed
    /\ monoChain.lowCut[1].bypassed
    /\ monoChain.lowCut[1].coefficients # Unity

(***************************************************************************)
(* More claims about the filter chains, checked under SpecFilters.         *)
(***************************************************************************)
\* the sections of a cut band that run are exactly the first slope+1
\* (Slope 0..3 stands for order 1..4)
SectionsMatchSlope(cut, slope) == \A i \in Sections : cut[i].bypassed = (i > slope)

C14_ChainsFromOneSnapshot ==
    [][/\ (pcA = "updateHighCutFilter" /\ pcA' # pcA)
            => /\ leftChain' = rightChain'
               /\ Configured(leftChain', chainSettigns["audio"])
       /\ (pcH = "updateHighCutFilter" /\ pcH' # pcH)
            => /\ leftChain' = rightChain'
               /\ Configured(leftChain', chainSettigns["host"])]_vars

\* C15: no step of an updateFilters call, of processBlock or of
\* setStateInformation, changes the delay registers of any band of either
\* chain; such a step changes coefficients and bypass flags only.
C15_RegistersKeptByUpdate ==
    [][(\/ pcA \in {"updateLowCutFilters", "updatePeakFilter", "updateHighCutFilter"}
           /\ pcA' # pcA
        \/ pcH \in {"updateLowCutFilters", "updatePeakFilter", "updateHighCutFilter"}
           /\ pcH' # pcH)
         => delayRegisters' = delayRegisters]_vars

\* the update of block 2 has just loaded new low-cut coefficients into the
\* sections 0..2 while the registers of the low cut still hold block 1 and
\* those of the peak, bypassed during block 1, hold nothing
C15_Witness ==
    /\ pcA = "updatePeakFilter"
    /\ buffer["left"].block = 2
    /\ chainSettigns["audio"].lowCutSlope = 2
    /\ leftChain.lowCut[2].coefficients = makeLowCutFilter(chainSettigns["audio"])[2]
    /\ delayRegisters["left"].lowCut = 1
    /\ delayRegisters["left"].peak = NoItem

(***************************************************************************)
(* More claims about the analyser, checked under SpecAnalyser.             *)
(***************************************************************************)
\* C16: when a prepareToPlay returns, the chains' delay registers are
\* cleared, both sample queues are empty, and every PathProducer's window
\* holds no block and its frame queue and its path queue are empty: nothing
\* gathered before the call is left for the blocks that follow.
C16_NothingSurvivesPrepare ==
    [][(pcH = "rightChannelFifo.prepare" /\ pcH' = "idle")
         => /\ \A c \in Channels :
                 /\ delayRegisters'[c] = ClearedRegisters
                 /\ getNumAvailableForReading(sampleFifo'[c]) = 0
            /\ \A pp \in PathProducers :
                 /\ monoBuffer'[pp] = NoItem
                 /\ getNumAvailableForReading(fftDataFifo'[pp]) = 0
                 /\ getNumAvailableForReading(pathFifo'[pp]) = 0]_vars

(***************************************************************************)
(* More claims about the response curve, checked under SpecCurve.          *)
(***************************************************************************)
\* C17: paint computes the magnitudes of the response curve only if a
\* parameter has changed or updateChain has run since they were last
\* computed; a tick and its repaint with no such change computes nothing.
C17_RecomputedOnlyOnChange ==
    [][(repaintPending /\ ~repaintPending') => settingsChanged]_vars

(***************************************************************************)
(* Claims about the polling task, checked under SpecPolling.               *)
(***************************************************************************)
\* PathProducer::process of producer pp is running
InProcess(pp) ==
    pcG \in {"sampleLoop", "getAudioBuffer", "fftLoop", "pathLoop"} /\ producer = pp

\* C18: every call of PathProducer::process returns: a call that is running
\* leads to a state where it has returned, also when the audio callback
\* keeps pushing blocks into the sample queue during the call.
C18_ProcessReturns ==
    \A pp \in PathProducers : InProcess(pp) ~> ~InProcess(pp)

\* C19: no change of a parameter is lost.  Whenever parametersChanged is
\* clear and no updateChain is about to run, monoChain is configured from
\* the current parameter values; the flag goes from set to clear only in
\* the compare-and-set step of timerCallback, which leads to updateChain;
\* and under a fair timer a set flag leads to a timerCallback that is about
\* to run updateChain, which then reads the settings, after the change.
C19_NoChangeLost ==
    /\ []((~parametersChanged /\ pcG # "updateChain")
            => Configured(monoChain, getChainSettings(apvts)))
    /\ [][(parametersChanged /\ ~parametersChanged')
            => (pcG = "parametersChanged" /\ pcG' = "updateChain")]_vars
    /\ [][(pcG = "updateChain" /\ pcG' # pcG)
            => Configured(monoChain', getChainSettings(apvts))]_vars
    /\ (parametersChanged ~> (pcG = "updateChain"))

\* a parameter has changed between the compare-and-set of a timerCallback
\* and the settings read of its updateChain: the flag is set again and
\* monoChain does not have the new value yet
C19_Witness ==
    /\ pcG = "updateChain"
    /\ parametersChanged
    /\ ~Configured(monoChain, getChainSettings(apvts))

(***************************************************************************)
(* Claims about the sliding window, checked under SpecWindow.              *)
(***************************************************************************)
\* C20: after a block of len samples has been taken in, the window still
\* has WindowSize samples, its first WindowSize - len samples are the
\* samples len + 1 .. WindowSize of the window before, in order, and its
\* last len samples are the samples of the block, in order.
C20_SlidingWindow ==
    tempIncomingSamples # <<>> =>
        LET len == Len(tempIncomingSamples) IN
            /\ Len(monoBufferSamples) = WindowSize
            /\ \A i \in 1 .. WindowSize - len :
                   monoBufferSamples[i] = monoBufferBefore[i + len]
            /\ \A j \in 1 .. len :
                   monoBufferSamples[WindowSize - len + j] = tempIncomingSamples[j]

\* C21: the step that takes a drained block in updates the window to hold
\* the block and pushes one frame.  With room in the frame queue one frame,
\* the frame of this block, is added behind the queued ones; with a full
\* frame queue the new frame is dropped and the queue is left as it was.
\* Either way the sample loop goes on with its test for the next block.
C21_NewestFrameDropped ==
    [][(pcG = "getAudioBuffer" /\ pcG' # pcG)
         => LET before == fftDataFifo[producer]
                after == fftDataFifo'[producer]
            IN  /\ monoBuffer'[producer] = tempIncomingBuffer
                /\ pcG' = "sampleLoop"
                /\ producer' = producer
                /\ after.r = before.r
                /\ IF getFreeSpace(before) > 0
                     THEN /\ getNumAvailableForReading(after)
                               = getNumAvailableForReading(before) + 1
                          /\ after.buffers =
                               [before.buffers EXCEPT ![before.w % getCapacity(before)] =
                                   produceFFTDataForRendering(tempIncomingBuffer)]
                     ELSE after = before]_vars

\* the frame of block 2 was dropped: the sample loop has taken block 2 in,
\* the window holds it, and the full frame queue still holds the frame of
\* block 1 only
C21_Witness ==
    /\ pcG = "sampleLoop"
    /\ monoBuffer[producer] = 2
    /\ getFreeSpace(fftDataFifo[producer]) = 0
    /\ \A i \in DOMAIN fftDataFifo[producer].buffers :
           fftDataFifo[producer].buffers[i] = produceFFTDataForRendering(1)

(***************************************************************************)
(* Claims about the spectrum path, checked under SpecPath.                 *)
(***************************************************************************)
\* the bins the loop of generatePath looks at
SampledBins == {bin \in 1 .. NumBins - 1 : (bin - 1) % pathResolution = 0}

\* C22: in a path generatePath has made, every point has finite
\* coordinates, no point was drawn for a bin of the loop whose frequency is
\* below 20 Hz, and every bin of the loop at 20 Hz or above whose level
\* maps to a finite y has its point.
C22_InvalidBinsSkipped ==
    path # <<>> =>
        /\ \A k \in 1 .. Len(path) : isfinite(path[k].x) /\ isfinite(path[k].y)
        /\ \A k \in 2 .. Len(path) : path[k].bin * binWidth >= 20
        /\ \A bin \in SampledBins :
              (bin * binWidth >= 20 /\ isfinite(map(renderData[bin])))
                 => \E k \in 2 .. Len(path) : path[k].bin = bin

\* C23: in every path that generatePath produces the x coordinates of
\* successive points never decrease, starting from the initial point at
\* x = 0, whatever the bin width (FFT size and sample rate) and the width
\* of the display are.
C23_XNonDecreasing ==
    path # <<>> =>
        /\ path[1].x = 0
        /\ \A k \in 1 .. Len(path) - 1 : path[k].x <= path[k + 1].x

(***************************************************************************)
(* The y coordinates of the response curve: paint maps each magnitude of   *)
(* mags to a pixel row with jmap from -24..24 dB to the bottom..top of the *)
(* analysis area.                                                          *)
(***************************************************************************)
\* responseArea.getBottom() and responseArea.getY(), in pixel rows
outputMin == 48
outputMax == 0

\* the y coordinates startNewSubPath and lineTo are given
responseCurve == [freq \in DOMAIN mags |-> jmap(mags[freq], -24, 24, outputMin, outputMax)]

\* C24: every y coordinate of the response curve lies within the analysis
\* area, between its top edge and its bottom edge.
C24_CurveWithinBounds ==
    \A freq \in DOMAIN mags :
        outputMax <= responseCurve[freq] /\ responseCurve[freq] <= outputMin

(***************************************************************************)
(* The length of the blocks: prepareToPlay hands samplesPerBlock to the    *)
(* sample queues, every block of a queue has that many samples, and the    *)
(* first loop of PathProducer::process shifts the window by the length of  *)
(* the block it pulled.                                                    *)
(***************************************************************************)
\* the block sizes a host passes: below, at and above the window's length
BlockSizes == 1 .. WindowSize + 2

\* leftChannelFifo.prepare(samplesPerBlock)
prepareToPlay_samplesPerBlock ==
    \E samplesPerBlock \in BlockSizes :
        /\ bufferSize' = samplesPerBlock
        /\ UNCHANGED <<shiftCopy, windowVars>>

\* getAudioBuffer has pulled a block; size = tempIncomingBuffer.getNumSamples().
\* The shift copy is called with the offsets and the count the code computes.
\* With a count below 0 and offsets outside the window the copies' result is
\* not defined: the window is left as it was (the copy faulted before it
\* wrote) or holds the last samples of the block (the copies ran past the
\* window's ends).
process_pulledBlock ==
    /\ bufferSize > 0
    /\ LET size == bufferSize
           getNumSamples == Len(monoBufferSamples)
       IN  /\ shiftCopy' = [dest |-> 0, src |-> size, num |-> getNumSamples - size]
           /\ \E block \in [1 .. size -> Samples] :
                /\ tempIncomingSamples' = block
                /\ IF size <= getNumSamples
                     THEN \E shifted \in FloatVectorOperations_copy(monoBufferSamples, 1, size + 1,
                                                                    getNumSamples - size) :
                            monoBufferSamples' =
                                copyFromBlock(shifted, getNumSamples - size + 1, block)
                     ELSE monoBufferSamples' \in
                              {monoBufferSamples,
                               [i \in 1 .. getNumSamples |-> block[size - getNumSamples + i]]}
    /\ UNCHANGED <<bufferSize, monoBufferBefore>>

NextBlockSize ==
    \/ prepareToPlay_samplesPerBlock /\ UNCHANGED <<fifoVars, pluginVars, pathVars, busVars,
                                                        editorVars, trackVars>>
    \/ process_pulledBlock /\ UNCHANGED <<fifoVars, pluginVars, pathVars, busVars,
                                                        editorVars, trackVars>>

SpecBlockSize == Init /\ [][NextBlockSize]_vars

\* C25: the block a shift was made for is no longer than the window, the
\* shift copies a number of samples that is not negative, and the samples it
\* reads and writes lie inside the window.
C25_ShiftInsideWindow ==
    shiftCopy # NoShift =>
        /\ Len(tempIncomingSamples) <= Len(monoBufferSamples)
        /\ shiftCopy.num >= 0
        /\ shiftCopy.src + shiftCopy.num <= Len(monoBufferSamples)
        /\ shiftCopy.dest + shiftCopy.num <= Len(monoBufferSamples)

(***************************************************************************)
(* The channels of the buffer: the host chooses a bus layout the plug-in   *)
(* accepts and processBlock gets a buffer with that layout's channels.     *)
(***************************************************************************)
\* the layouts a host can ask for, as channel counts: mono, stereo and a
\* three-channel set
Layouts == [in : 1 .. 3, out : 1 .. 3]

\* isBusesLayoutSupported: the output is mono or stereo and the input is
\* the same set
isBusesLayoutSupported(layouts) ==
    IF layouts.out # 1 /\ layouts.out # 2 THEN FALSE
    ELSE IF layouts.out # layouts.in THEN FALSE
    ELSE TRUE

\* buffer.getNumChannels() under a layout
getNumChannels(layouts) == IF layouts.in > layouts.out THEN layouts.in ELSE layouts.out

\* the host sets a layout between two calls; a layout that
\* isBusesLayoutSupported refuses is not applied
setBusesLayout ==
    /\ pcA = "idle"
    /\ pcH = "idle"
    /\ \E layouts \in Layouts :
         /\ isBusesLayoutSupported(layouts)
         /\ layouts # busesLayout
         /\ busesLayout' = layouts
    /\ channelsAccessed' = {}

\* processBlock's first loop: buffer.clear(i, ...) for the output channels
\* that have no input
processBlock_clear ==
    channelsAccessed' = {i \in 0 .. 2 : busesLayout.in <= i /\ i < busesLayout.out}

\* a step of processBlock that uses channel i of the buffer
processBlock_channel(i) == channelsAccessed' = channelsAccessed \cup {i}

NextChannels ==
    \/ setBusesLayout
          /\ UNCHANGED <<fifoVars, pluginVars, windowVars, pathVars, blockVars, editorVars,
                         trackVars>>
    \/ prepareToPlay_begin /\ UNCHANGED <<fifoVars, unitVars>>
    \/ prepareToPlay_leftChannelFifo /\ UNCHANGED <<fifoVars, unitVars>>
    \/ prepareToPlay_rightChannelFifo /\ UNCHANGED <<fifoVars, unitVars>>
    \/ parameterValueChanged /\ UNCHANGED <<fifoVars, unitVars>>
    \/ processBlock_begin /\ processBlock_clear
          /\ UNCHANGED <<fifoVars, windowVars, pathVars, blockVars, busesLayout, editorVars,
                         trackVars>>
    \/ processBlock_updateLowCutFilters /\ UNCHANGED <<fifoVars, unitVars>>
    \/ processBlock_updatePeakFilter /\ UNCHANGED <<fifoVars, unitVars>>
    \/ processBlock_updateHighCutFilter /\ UNCHANGED <<fifoVars, unitVars>>
    \/ processBlock_processLeft /\ processBlock_channel(0)
          /\ UNCHANGED <<fifoVars, windowVars, pathVars, blockVars, busesLayout, editorVars,
                         trackVars>>
    \/ processBlock_processRight /\ processBlock_channel(1)
          /\ UNCHANGED <<fifoVars, windowVars, pathVars, blockVars, busesLayout, editorVars,
                         trackVars>>
    \/ processBlock_leftChannelFifo /\ processBlock_channel(0)
          /\ UNCHANGED <<fifoVars, windowVars, pathVars, blockVars, busesLayout, editorVars,
                         trackVars>>
    \/ processBlock_rightChannelFifo /\ processBlock_channel(1)
          /\ UNCHANGED <<fifoVars, windowVars, pathVars, blockVars, busesLayout, editorVars,
                         trackVars>>

SpecChannels == Init /\ [][NextChannels]_vars

\* C26: every channel index processBlock has used is smaller than the
\* number of channels of the buffer, under every layout the plug-in accepts.
C26_ChannelsExist ==
    \A i \in channelsAccessed : i < getNumChannels(busesLayout)

\* C27: a setStateInformation call whose blob decodes to no valid tree
\* changes neither the parameters nor the chains and does not start
\* updateFilters; a call with a valid blob replaces the parameters by the
\* tree's and, when it returns, both chains are configured from the values
\* its updateFilters read from the restored state.
C27_RestoreAllOrNothing ==
    [][/\ setStateInformation_invalid
            => (UNCHANGED <<apvts, leftChain, rightChain>> /\ pcH' = "idle")
       /\ (hostCall # "setStateInformation" /\ hostCall' = "setStateInformation")
            => apvts' \in StateTrees
       /\ (hostCall = "setStateInformation" /\ hostCall' = "none")
            => /\ Configured(leftChain', chainSettigns["host"])
               /\ Configured(rightChain', chainSettigns["host"])]_vars

(***************************************************************************)
(* The editor and the Analyser Enable button.  The button is attached to   *)
(* the "Analyser Enable" parameter; its onClick, which the editor's        *)
(* constructor body assigns after the attachments are built, hands the     *)
(* toggle state to ResponseCurveComponent::toggleAnalysisEnablement.       *)
(***************************************************************************)
\* other parts of the program that the editor's variables do not touch
otherUnits == <<windowVars, pathVars, blockVars, busVars, trackVars>>

\* a click on analyserEnableButton: the toggle state flips, the attachment
\* writes the parameter (whose listener sets parametersChanged), onClick
\* calls toggleAnalysisEnablement(toggle state)
analyserEnableButton_onClick ==
    /\ editorOpen
    /\ pcG = "idle"
    /\ analyserEnableButton' = ~analyserEnableButton
    /\ analyserEnable' = analyserEnableButton'
    /\ shouldShowFFTAnalysis' = analyserEnableButton'
    /\ parametersChanged' = TRUE
    /\ UNCHANGED <<editorOpen, attachmentPending>>
    /\ UNCHANGED <<apvts, chains, sampleFifo, chainSettigns,
                   audioVars, hostVars, pcG, producer, tempIncomingBuffer, monoBuffer,
                   leftChannelFFTPath, fftDataFifo, pathFifo, monoChain, ghosts>>
    /\ UNCHANGED paintVars

\* the button's attachment delivers the parameter's value:
\* setToggleState(value, sendNotificationSync), which runs onClick when the
\* toggle state changes
attachment_setValue ==
    /\ analyserEnableButton' = analyserEnable'
    /\ shouldShowFFTAnalysis' =
           IF analyserEnableButton # analyserEnable' THEN analyserEnable'
                                                     ELSE shouldShowFFTAnalysis

\* the host sets the parameter (automation, or the replaceState of a state
\* restore).  With the editor open the parameter's listeners run: the
\* response curve's sets parametersChanged, the attachment's updates the
\* button at once on the message thread and posts an update from any other
\* thread.
analyserEnable_setValue ==
    /\ pcG = "idle"
    /\ analyserEnable' = ~analyserEnable
    /\ \E isThisTheMessageThread \in BOOLEAN :
         IF ~editorOpen
           THEN UNCHANGED <<analyserEnableButton, attachmentPending,
                            shouldShowFFTAnalysis, parametersChanged>>
           ELSE /\ parametersChanged' = TRUE
                /\ IF isThisTheMessageThread
                     THEN attachment_setValue /\ attachmentPending' = FALSE
                     ELSE /\ attachmentPending' = TRUE
                          /\ UNCHANGED <<analyserEnableButton, shouldShowFFTAnalysis>>
    /\ UNCHANGED editorOpen
    /\ UNCHANGED <<apvts, chains, sampleFifo, chainSettigns,
                   audioVars, hostVars, pcG, producer, tempIncomingBuffer, monoBuffer,
                   leftChannelFFTPath, fftDataFifo, pathFifo, monoChain, ghosts>>
    /\ UNCHANGED paintVars

\* the posted update runs on the message thread
attachment_handleAsyncUpdate ==
    /\ editorOpen
    /\ attachmentPending
    /\ pcG = "idle"
    /\ attachmentPending' = FALSE
    /\ UNCHANGED <<editorOpen, analyserEnable>>
    /\ attachment_setValue
    /\ UNCHANGED <<apvts, parametersChanged, chains, sampleFifo, chainSettigns,
                   audioVars, hostVars, pcG, producer, tempIncomingBuffer, monoBuffer,
                   leftChannelFFTPath, fftDataFifo, pathFifo, monoChain, ghosts>>
    /\ UNCHANGED paintVars

\* the editor is closed: its components, attachments and timer are gone;
\* the parameters stay with the processor
editor_destructor ==
    /\ editorOpen
    /\ pcG = "idle"
    /\ editorOpen' = FALSE
    /\ attachmentPending' = FALSE
    /\ UNCHANGED <<analyserEnable, analyserEnableButton>>
    /\ UNCHANGED pluginVars

\* the editor is opened again.  ResponseCurveComponent is built anew:
\* shouldShowFFTAnalysis = true by its member initialiser, updateChain() from
\* the current parameters, new PathProducers.  The new button starts
\* untoggled and the attachment's constructor sets it to the parameter's
\* value; onClick is still empty then, so toggleAnalysisEnablement is not
\* called.
editor_constructor ==
    /\ ~editorOpen
    /\ editorOpen' = TRUE
    /\ analyserEnableButton' = analyserEnable
    /\ shouldShowFFTAnalysis' = TRUE
    /\ parametersChanged' = FALSE
    /\ monoChain' = updateChain(NewChain, getChainSettings(apvts))
    /\ fftDataFifo' = [pp \in PathProducers |-> prepare(getCapacity(fftDataFifo[pp]))]
    /\ pathFifo' = [pp \in PathProducers |-> prepare(getCapacity(pathFifo[pp]))]
    /\ monoBuffer' = [pp \in PathProducers |-> NoItem]
    /\ leftChannelFFTPath' = [pp \in PathProducers |-> NoItem]
    /\ lastGenerated' = [pp \in PathProducers |-> NoItem]
    /\ pcG' = "idle"
    /\ producer' = "leftPathProducer"
    /\ tempIncomingBuffer' = NoItem
    /\ repaintPending' = FALSE
    /\ mags' = <<>>
    /\ settingsChanged' = TRUE
    /\ UNCHANGED <<analyserEnable, attachmentPending>>
    /\ UNCHANGED <<apvts, chains, sampleFifo, chainSettigns, audioVars, hostVars,
                   writers, readers>>

\* the editor with its timer and its paint, the parameters changing
NextEditor ==
    \/ analyserEnableButton_onClick /\ UNCHANGED <<fifoVars, otherUnits>>
    \/ analyserEnable_setValue /\ UNCHANGED <<fifoVars, otherUnits>>
    \/ attachment_handleAsyncUpdate /\ UNCHANGED <<fifoVars, otherUnits>>
    \/ editor_destructor /\ UNCHANGED <<fifoVars, otherUnits>>
    \/ editor_constructor /\ UNCHANGED <<fifoVars, otherUnits>>
    \/ parameterValueChanged /\ UNCHANGED <<fifoVars, unitVars>>
    \/ editorOpen /\ timerCallback_begin /\ UNCHANGED <<fifoVars, unitVars>>
    \/ process_sampleLoop /\ UNCHANGED <<fifoVars, unitVars>>
    \/ process_fftLoop /\ UNCHANGED <<fifoVars, unitVars>>
    \/ process_pathLoop /\ UNCHANGED <<fifoVars, unitVars>>
    \/ timerCallback_parametersChanged /\ UNCHANGED <<fifoVars, unitVars>>
    \/ timerCallback_updateChain /\ UNCHANGED <<fifoVars, unitVars>>
    \/ editorOpen /\ paint /\ UNCHANGED <<fifoVars, unitVars>>

SpecEditor == Init /\ [][NextEditor]_vars

\* C28: while the editor exists, shouldShowFFTAnalysis equals the toggle
\* state of the Analyser Enable button.
C28_FlagFollowsButton ==
    editorOpen => shouldShowFFTAnalysis = analyserEnableButton

(***************************************************************************)
(* The display chain and the audio chains.  sinceChange records, for the   *)
(* audio callback and for the timer callback, whether a call that began    *)
(* after the last change of a parameter has returned.  The analysis is     *)
(* off: timerCallback goes straight to the parameters.                     *)
(***************************************************************************)
untracked == <<windowVars, pathVars, blockVars, busVars, editorVars>>

\* a parameter has changed: nothing has run since
changed == sinceChange' = [audio |-> "none", gui |-> "none"]

\* a call of the context begins
started(context) ==
    sinceChange' = [sinceChange EXCEPT ![context] = IF @ = "done" THEN "done" ELSE "running"]

\* a call of the context returns
returned(context) ==
    sinceChange' = [sinceChange EXCEPT ![context] = IF @ = "running" THEN "done" ELSE @]

\* the parameter changes of a run: the peak band is switched off and on
TrackingInputs == {<<"peakBypassed", TRUE>>, <<"peakBypassed", FALSE>>}

\* The host prepares once and then calls processBlock.  It restores a state
\* on the message thread, where the timer runs too, so no timerCallback runs
\* during a setStateInformation; processBlock and the parameter changes run
\* at any time.
NextTracking ==
    \/ processBlock_begin /\ started("audio") /\ UNCHANGED <<fifoVars, untracked>>
    \/ processBlock_updateLowCutFilters /\ UNCHANGED <<fifoVars, unitVars>>
    \/ processBlock_updatePeakFilter /\ UNCHANGED <<fifoVars, unitVars>>
    \/ processBlock_updateHighCutFilter /\ UNCHANGED <<fifoVars, unitVars>>
    \/ processBlock_processLeft /\ UNCHANGED <<fifoVars, unitVars>>
    \/ processBlock_processRight /\ UNCHANGED <<fifoVars, unitVars>>
    \/ processBlock_leftChannelFifo /\ UNCHANGED <<fifoVars, unitVars>>
    \/ processBlock_rightChannelFifo /\ returned("audio") /\ UNCHANGED <<fifoVars, untracked>>
    \/ ~prepared /\ prepareToPlay_begin /\ UNCHANGED <<fifoVars, unitVars>>
    \/ prepareToPlay_leftChannelFifo /\ UNCHANGED <<fifoVars, unitVars>>
    \/ prepareToPlay_rightChannelFifo /\ UNCHANGED <<fifoVars, unitVars>>
    \/ pcG = "idle" /\ setStateInformation_begin /\ changed
          /\ UNCHANGED <<fifoVars, untracked>>
    \/ setStateInformation_updateFilters /\ UNCHANGED <<fifoVars, unitVars>>
    \/ setStateInformation_updateLowCutFilters /\ UNCHANGED <<fifoVars, unitVars>>
    \/ setStateInformation_updatePeakFilter /\ UNCHANGED <<fifoVars, unitVars>>
    \/ setStateInformation_updateHighCutFilter /\ UNCHANGED <<fifoVars, unitVars>>
    \/ setValueNotifyingHost(TrackingInputs) /\ changed
          /\ UNCHANGED <<fifoVars, untracked>>
    \/ hostCall # "setStateInformation" /\ timerCallback_begin /\ started("gui")
          /\ UNCHANGED <<fifoVars, untracked>>
    \/ timerCallback_parametersChanged
          /\ (IF pcG' = "idle" THEN returned("gui") ELSE UNCHANGED sinceChange)
          /\ UNCHANGED <<fifoVars, untracked>>
    \/ timerCallback_updateChain /\ returned("gui") /\ UNCHANGED <<fifoVars, untracked>>

\* the editor after the click that switched the analysis off
InitEditorOff ==
    /\ editorOpen = TRUE
    /\ analyserEnable = FALSE
    /\ analyserEnableButton = FALSE
    /\ attachmentPending = FALSE

\* the plug-in as constructed with the analysis switched off since, so that
\* timerCallback only polls the parameters
InitAnalyserOff ==
    /\ InitFifo /\ InitPluginWith(NumSlots, FALSE)
    /\ InitWindowZero /\ InitPathNone /\ InitBlockSize /\ InitBuses
    /\ InitEditorOff /\ InitTracking

SpecTracking == InitAnalyserOff /\ [][NextTracking]_vars

\* the two chains have the same band bypass flags, the same active sections
\* and the same coefficients in the peak band and in every active section
SameResponse(a, b) ==
    /\ a.lowCutBypassed = b.lowCutBypassed
    /\ a.peakBypassed = b.peakBypassed
    /\ a.highCutBypassed = b.highCutBypassed
    /\ a.peak = b.peak
    /\ \A i \in Sections :
         /\ a.lowCut[i].bypassed = b.lowCut[i].bypassed
         /\ ~a.lowCut[i].bypassed => a.lowCut[i].coefficients = b.lowCut[i].coefficients
         /\ a.highCut[i].bypassed = b.highCut[i].bypassed
         /\ ~a.highCut[i].bypassed => a.highCut[i].coefficients = b.highCut[i].coefficients

\* C29: once a timerCallback and a processBlock that began after the last
\* parameter change have both returned, monoChain has the same band bypass
\* flags, active sections and coefficients as leftChain and as rightChain.
C29_DisplayTracksAudio ==
    (sinceChange.audio = "done" /\ sinceChange.gui = "done")
        => /\ SameResponse(monoChain, leftChain)
           /\ SameResponse(monoChain, rightChain)

====
